---- MODULE Spec2Model ----
(***************************************************************************)
(* Verification model of azure-sql-export:                                 *)
(*   - DependencyAnalyzer (src/azure_sql_import.py): the dependency graph   *)
(*     and its topological sort;                                            *)
(*   - generate_migration (src/pyazs/migrate.py) and                        *)
(*     apply_latest_migration (src/scripts/apply_latest_migration.py);      *)
(*   - the comparison of two definitions (compare_schemas and the loop      *)
(*     body of generate_migration) and the rewriting of a statement header  *)
(*     (_definition_for_update and import_schema_objects).                  *)
(* Texts (SQL definitions, object names) are sequences of one-character     *)
(* strings, so that comparisons, lower-casing and header rewriting are      *)
(* computed character by character as the Python code computes them.        *)
(***************************************************************************)
EXTENDS Integers, Sequences, FiniteSets, TLC

\* ------------------------------------------------------------------------
\* Bounds of the dependency-graph model
\* ------------------------------------------------------------------------
NumNames == 3

MaxDeps == 3

\* Object names as f"{schema}.{obj}" builds them; the third is the first in other
\* letter case, as a reference may spell it.
AllNames == <<"dbo.T", "dbo.V", "DBO.t", "dbo.F", "dbo.G">>

Names == {AllNames[i] : i \in 1..NumNames}

\* The kind tag is stored by add_object and never read by topological_sort.
GraphTypes == {"Views"}

\* ------------------------------------------------------------------------
\* Bounds of the migration model
\* ------------------------------------------------------------------------
\* Objects in the database and files in the schema directory, together
MaxObjects == 3

\* Migration files generate_migration may write
MaxMigrations == 2

\* pyazs/common.py: the keys of OBJECT_QUERIES, in the order the dict lists them
OBJECT_QUERIES == <<"Tables", "Views", "StoredProcedures", "Functions", "Triggers">>

ObjectTypes == {OBJECT_QUERIES[i] : i \in DOMAIN OBJECT_QUERIES}

\* ------------------------------------------------------------------------
\* State
\* ------------------------------------------------------------------------
VARIABLES
    object_types,   \* DependencyAnalyzer.object_types: dict in insertion order, <<name, type>> pairs
    dependencies,   \* DependencyAnalyzer.dependencies: name -> set of names it depends on
    dependents,     \* DependencyAnalyzer.dependents: name -> its dependents, in set-iteration order
    result,         \* list returned by the latest topological_sort
    warned,         \* objects named by its "Circular dependencies detected" warning
    iters,          \* iterations of its while loop
    sorted,         \* TRUE once topological_sort has been called
    repeated,       \* TRUE once it has been called again on the sorted analyzer
    db,             \* the database: type -> rows of (name, definition) as get_db_objects reads them
    files,          \* the schema directory: type -> (name, text) of each .sql file, in listdir order
    migration_sql,  \* generate_migration's migration_sql list of its latest run
    created,        \* its summary bucket created: type -> names
    updated,        \* its summary bucket updated: type -> names
    dropped,        \* its summary bucket dropped: type -> names
    migrations,     \* the migrations directory: the update files in the order of their names
    phase,          \* what has run last: "start", "planned", "applied", "replanned", "stale"
    file_text,      \* the desired definition handed to a comparison (new_schema, file_def)
    db_text,        \* the actual definition handed to it (existing_schema, db_def)
    differences,    \* what compare_schemas returned for the two, "" before the call
    appended,       \* what generate_migration's loop body appended for the two, <<>> before
    update_type,    \* the obj_type handed to _definition_for_update
    update_def,     \* the definition handed to it
    update_sql,     \* what it returned, <<"pending">> before the call
    modified_sql,     \* import_schema_objects' modified_sql for the definition, <<"pending">> before
    objects,          \* get_import_order's argument: type -> the objects loaded from that folder
    found,            \* what analyze_sql_dependencies returns for each object's file
    import_order,     \* the list get_import_order returned, <<"pending">> before the call
    auto_confirm,     \* AzureSQLImporter.auto_confirm
    alter_existing,   \* AzureSQLImporter.alter_existing
    import_plan,      \* the import order: type of each object, whether it exists, whether it differs
    pc,               \* where run_import is: "start", "asking", "importing", "completed", "cancelled", "failed"
    asked,            \* the confirmation input() is waiting on: "proceed", "object", "" when none
    obj_index,        \* the position in the import order of the object of the current iteration
    outcomes,         \* what the loop did with each object, "pending" before its iteration
    attempts,         \* the calls of execute_sql_file and execute_alter_statements so far
    pending,          \* the statements executed in the open transaction of the connection
    committed,        \* the statements whose transaction was committed
    retries,          \* the argument retries of execute_with_retry
    attempt,          \* its local attempt
    calls,            \* what each invocation of operation() did so far: <<>> or <<the error it raised>>
    retry_pc,         \* where the call is: "running", "returned" (True), "raised"
    dry_run,          \* the argument dry_run of copy_table
    truncate,         \* its argument truncate
    identity_mode,    \* its argument identity_mode: "auto", "on", "off"
    batch_size,       \* its argument batch_size
    copy_retries,     \* its argument retries
    total_rows,       \* the number of rows of the source table
    target_log,       \* the statements executed on the cursor of the target, in order
    copy_result,      \* the tuple copy_table returned, <<>> before
    directory,        \* the migrations directory: the pairs of a file name and the run that wrote its content (0: it was there before)
    runs,             \* the number of runs of generate_migration that wrote a file
    written,          \* the name of the file the latest run wrote, <<>> before
    overwrote,        \* whether a run has opened for writing a file that existed
    latest,           \* the path apply_latest_migration selected after the latest run, <<>> when it has not
    clock,            \* int(time.time()), counted from the start of the application
    operation_status, \* the global dict operation_status: id -> <<>> when the key is absent, <<its value>> otherwise
    threads,          \* the background threads started, in order: the operation_id each got and where it is
    answers,          \* the answers of api_status to queries for an operation_id that a start endpoint had returned
    served,           \* the operations (positions in threads) whose client was sent the download
    schema_dir,       \* the schema directory: folder name -> (name, text) of each .sql file, in listdir order
    synced            \* TRUE once sync_schema_objects has run on the directory

graphVars == <<object_types, dependencies, dependents, result, warned, iters, sorted, repeated>>

catalogVars == <<db, files>>

planVars == <<migration_sql, created, updated, dropped>>

migVars == <<catalogVars, planVars, migrations, phase>>

diffVars == <<file_text, db_text, differences, appended>>

updateVars == <<update_type, update_def, update_sql, modified_sql>>

textVars == <<diffVars, updateVars>>

\* No comparison has been made.
NoDiff ==
    /\ file_text = <<>>
    /\ db_text = <<>>
    /\ differences = ""
    /\ appended = <<>>

\* No update statement has been asked for.
NoUpdate ==
    /\ update_type = ""
    /\ update_def = <<>>
    /\ update_sql = <<"pending">>
    /\ modified_sql = <<"pending">>

orderVars == <<objects, found, import_order>>

importVars == <<auto_confirm, alter_existing, import_plan, pc, asked, obj_index, outcomes, attempts, pending, committed>>

retryVars == <<retries, attempt, calls, retry_pc>>

copyVars == <<dry_run, truncate, identity_mode, batch_size, copy_retries, total_rows, target_log, copy_result>>

numberVars == <<directory, runs, written, overwrote, latest>>

webVars == <<clock, operation_status, threads, answers, served>>

syncVars == <<schema_dir, synced>>

\* get_import_order has not been called.
NoOrder ==
    /\ objects = <<>>
    /\ found = <<>>
    /\ import_order = <<"pending">>

\* run_import has not been called.
NoImport ==
    /\ auto_confirm = FALSE
    /\ alter_existing = FALSE
    /\ import_plan = <<>>
    /\ pc = "idle"
    /\ asked = ""
    /\ obj_index = 0
    /\ outcomes = <<>>
    /\ attempts = <<>>
    /\ pending = {}
    /\ committed = {}

\* execute_with_retry has not been called.
NoRetry ==
    /\ retries = 0
    /\ attempt = 0
    /\ calls = <<>>
    /\ retry_pc = "idle"

\* copy_table has not been called.
NoCopy ==
    /\ dry_run = FALSE
    /\ truncate = FALSE
    /\ identity_mode = ""
    /\ batch_size = 0
    /\ copy_retries = 0
    /\ total_rows = 0
    /\ target_log = <<>>
    /\ copy_result = <<>>

\* No migrations directory is looked at.
NoNumber ==
    /\ directory = {}
    /\ runs = 0
    /\ written = <<>>
    /\ overwrote = FALSE
    /\ latest = <<>>

\* The web application is not running.
NoWeb ==
    /\ clock = 0
    /\ operation_status = <<>>
    /\ threads = <<>>
    /\ answers = {}
    /\ served = {}

\* sync_schema_objects has not been called.
NoSync ==
    /\ schema_dir = <<>>
    /\ synced = FALSE

restVars == <<orderVars, importVars, retryVars, copyVars, numberVars, webVars, syncVars>>

NoRest ==
    /\ NoOrder
    /\ NoImport
    /\ NoRetry
    /\ NoCopy
    /\ NoNumber
    /\ NoWeb
    /\ NoSync

\* The variables that play no part in the model of get_import_order, and their values
otherOrder == <<importVars, retryVars, copyVars, numberVars, webVars, syncVars>>

NoOtherOrder ==
    /\ NoImport
    /\ NoRetry
    /\ NoCopy
    /\ NoNumber
    /\ NoWeb
    /\ NoSync

besideOrder == <<graphVars, migVars, textVars, otherOrder>>

NoBesideOrder ==
    /\ NoDiff
    /\ NoUpdate
    /\ NoOtherOrder

\* The variables that play no part in the model of run_import, and their values
otherImport == <<orderVars, retryVars, copyVars, numberVars, webVars, syncVars>>

NoOtherImport ==
    /\ NoOrder
    /\ NoRetry
    /\ NoCopy
    /\ NoNumber
    /\ NoWeb
    /\ NoSync

besideImport == <<graphVars, migVars, textVars, otherImport>>

NoBesideImport ==
    /\ NoDiff
    /\ NoUpdate
    /\ NoOtherImport

\* The variables that play no part in the model of execute_with_retry, and their values
otherRetry == <<orderVars, importVars, copyVars, numberVars, webVars, syncVars>>

NoOtherRetry ==
    /\ NoOrder
    /\ NoImport
    /\ NoCopy
    /\ NoNumber
    /\ NoWeb
    /\ NoSync

besideRetry == <<graphVars, migVars, textVars, otherRetry>>

NoBesideRetry ==
    /\ NoDiff
    /\ NoUpdate
    /\ NoOtherRetry

\* The variables that play no part in the model of copy_table, and their values
otherCopy == <<orderVars, importVars, retryVars, numberVars, webVars, syncVars>>

NoOtherCopy ==
    /\ NoOrder
    /\ NoImport
    /\ NoRetry
    /\ NoNumber
    /\ NoWeb
    /\ NoSync

besideCopy == <<graphVars, migVars, textVars, otherCopy>>

NoBesideCopy ==
    /\ NoDiff
    /\ NoUpdate
    /\ NoOtherCopy

\* The variables that play no part in the model of the numbering of the migration files, and their values
otherNumber == <<orderVars, importVars, retryVars, copyVars, webVars, syncVars>>

NoOtherNumber ==
    /\ NoOrder
    /\ NoImport
    /\ NoRetry
    /\ NoCopy
    /\ NoWeb
    /\ NoSync

besideNumber == <<graphVars, migVars, textVars, otherNumber>>

NoBesideNumber ==
    /\ NoDiff
    /\ NoUpdate
    /\ NoOtherNumber

\* The variables that play no part in the model of the web application, and their values
otherWeb == <<orderVars, importVars, retryVars, copyVars, numberVars, syncVars>>

NoOtherWeb ==
    /\ NoOrder
    /\ NoImport
    /\ NoRetry
    /\ NoCopy
    /\ NoNumber
    /\ NoSync

besideWeb == <<graphVars, migVars, textVars, otherWeb>>

NoBesideWeb ==
    /\ NoDiff
    /\ NoUpdate
    /\ NoOtherWeb

\* The variables that play no part in the model of sync_schema_objects, and their values
otherSync == <<orderVars, importVars, retryVars, copyVars, numberVars, webVars>>

NoOtherSync ==
    /\ NoOrder
    /\ NoImport
    /\ NoRetry
    /\ NoCopy
    /\ NoNumber
    /\ NoWeb

besideSync == <<graphVars, migVars, textVars, otherSync>>

NoBesideSync ==
    /\ NoDiff
    /\ NoUpdate
    /\ NoOtherSync

vars == <<graphVars, migVars, textVars, restVars>>

\* No object of any type
NoObjects == [t \in ObjectTypes |-> <<>>]

\* Nothing has been generated.
NoPlan ==
    /\ migration_sql = <<>>
    /\ created = NoObjects
    /\ updated = NoObjects
    /\ dropped = NoObjects
    /\ migrations = <<>>
    /\ phase = "start"

\* ------------------------------------------------------------------------
\* Generic helpers
\* ------------------------------------------------------------------------
Range(s) == {s[i] : i \in DOMAIN s}

\* All orderings of a finite set, as sequences without repetition.
RECURSIVE Orderings(_)
Orderings(S) ==
    IF S = {} THEN {<<>>}
    ELSE UNION {{<<x>> \o p : p \in Orderings(S \ {x})} : x \in S}

\* Position of x in sequence s (0 when absent).
Pos(s, x) == IF \E i \in DOMAIN s : s[i] = x THEN CHOOSE i \in DOMAIN s : s[i] = x ELSE 0

\* Subsequence of s made of the elements that are in S, order kept.
RECURSIVE Restrict(_, _)
Restrict(s, S) ==
    IF s = <<>> THEN <<>>
    ELSE IF Head(s) \in S THEN <<Head(s)>> \o Restrict(Tail(s), S)
    ELSE Restrict(Tail(s), S)

\* The orderings of every set of names, computed once.
NameOrderings == [S \in SUBSET Names |-> Orderings(S)]

\* ------------------------------------------------------------------------
\* DependencyAnalyzer
\* ------------------------------------------------------------------------
Keys(ot) == {ot[i][1] : i \in DOMAIN ot}

KeyList(ot) == [i \in DOMAIN ot |-> ot[i][1]]

\* object_types[obj_name] = obj_type on an insertion-ordered dict
DictSet(ot, k, v) ==
    IF k \in Keys(ot) THEN [i \in DOMAIN ot |-> IF ot[i][1] = k THEN <<k, v>> ELSE ot[i]]
    ELSE Append(ot, <<k, v>>)

RECURSIVE SumLen(_, _)
SumLen(f, S) ==
    IF S = {} THEN 0
    ELSE LET n == CHOOSE x \in S : TRUE IN Len(f[n]) + SumLen(f, S \ {n})

\* Number of recorded edges: every edge is listed once, under its target.
NumEdges(dpts) == SumLen(dpts, Names)

\* Mutant of InDegree: counts the dependents instead of the dependencies.
InDegreeOfDependents(ot, deps, dpts) ==
    [n \in Names |-> IF n \in Keys(ot) THEN Len(dpts[n]) ELSE 0]

\* in_degree = defaultdict(int); in_degree[obj] = len(self.dependencies[obj]) for registered obj
InDegree(ot, deps, dpts) ==
    [n \in Names |-> IF n \in Keys(ot) THEN Cardinality(deps[n]) ELSE 0]

\* queue = deque([obj for obj in self.object_types if in_degree[obj] == 0])
RECURSIVE Seeds(_, _)
Seeds(keys, indeg) ==
    IF keys = <<>> THEN <<>>
    ELSE IF indeg[Head(keys)] = 0 THEN <<Head(keys)>> \o Seeds(Tail(keys), indeg)
    ELSE Seeds(Tail(keys), indeg)

\* for dependent in self.dependents[obj]: in_degree[dependent] -= 1; enqueue at zero
RECURSIVE Relax(_, _, _)
Relax(ds, indeg, queue) ==
    IF ds = <<>> THEN [indeg |-> indeg, queue |-> queue]
    ELSE LET d == Head(ds)
             nd == [indeg EXCEPT ![d] = @ - 1]
         IN Relax(Tail(ds), nd, IF nd[d] = 0 THEN Append(queue, d) ELSE queue)

\* Mutant of DependentsAfterVisit: the dependents of a visited object are consumed.
DependentsConsumed(dpts, obj) == [dpts EXCEPT ![obj] = <<>>]

\* The loop over self.dependents[obj] only reads the set: the graph is as before.
DependentsAfterVisit(dpts, obj) == dpts

\* while queue: obj = queue.popleft(); result.append(obj); relax the dependents
RECURSIVE Drain(_, _, _, _, _)
Drain(queue, res, indeg, dpts, n) ==
    IF queue = <<>> THEN [result |-> res, dependents |-> dpts, iters |-> n]
    ELSE LET obj == Head(queue)
             r == Relax(dpts[obj], indeg, Tail(queue))
         IN Drain(r.queue, Append(res, obj), r.indeg, DependentsAfterVisit(dpts, obj), n + 1)

\* Mutant of Remaining: the objects left over are not reported.
RemainingNone(ot, res) == {}

\* remaining = set(self.object_types.keys()) - set(result), when the lengths differ
Remaining(ot, res) ==
    IF Len(res) # Len(ot) THEN Keys(ot) \ Range(res) ELSE {}

\* result.extend(remaining): a fresh set, iterated in this process's hash order
Extend(res, remaining, horder) == res \o Restrict(horder, remaining)

\* DependencyAnalyzer.topological_sort on a graph (ot, deps, dpts), up to the
\* circular-dependency check: the ordered part, the leftover, the graph afterwards.
Kahn(ot, deps, dpts) ==
    LET indeg == InDegree(ot, deps, dpts)
        d == Drain(Seeds(KeyList(ot), indeg), <<>>, indeg, dpts, 0)
    IN [result |-> d.result,
        remaining |-> Remaining(ot, d.result),
        dependents |-> d.dependents,
        iters |-> d.iters]

\* The list topological_sort returns when the fresh set `remaining` iterates as horder.
TopologicalSort(ot, deps, dpts, horder) ==
    LET k == Kahn(ot, deps, dpts) IN Extend(k.result, k.remaining, horder)

\* The model records at most MaxDeps edges.
RoomForEdge == NumEdges(dependents) < MaxDeps

\* A set that does not take the element
InsertNowhere(s, x) == {s}

\* All ways to insert x into sequence s.
InsertAnywhere(s, x) ==
    {SubSeq(s, 1, i) \o <<x>> \o SubSeq(s, i + 1, Len(s)) : i \in 0..Len(s)}

\* DependencyAnalyzer.__init__
NewAnalyzer ==
    /\ object_types = <<>>
    /\ dependencies = [n \in Names |-> {}]
    /\ dependents = [n \in Names |-> <<>>]
    /\ result = <<>>
    /\ warned = {}
    /\ iters = 0
    /\ sorted = FALSE
    /\ repeated = FALSE

\* A new analyzer; the catalogs play no part in the dependency analysis.
InitGraph ==
    /\ NewAnalyzer
    /\ db = NoObjects
    /\ files = NoObjects
    /\ NoPlan
    /\ NoDiff
    /\ NoUpdate
    /\ NoRest

\* The callers (get_import_order, show_dependency_info) build a fresh analyzer,
\* add every object and every dependency, and only then sort it: nothing is
\* added to an analyzer that has been sorted.
Building ==
    /\ ~sorted
    /\ UNCHANGED <<result, warned, iters, sorted, repeated, migVars, textVars, restVars>>

add_object ==
    \E obj_name \in Names, obj_type \in GraphTypes :
        /\ Building
        /\ obj_name \in Keys(object_types) \/ Len(object_types) < NumNames
        /\ object_types' = DictSet(object_types, obj_name, obj_type)
        /\ UNCHANGED <<dependencies, dependents>>

add_dependency ==
    /\ Building
    /\ \E room \in {RoomForEdge}, obj_name \in Names, dependency \in Names :
        /\ dependency \in dependencies[obj_name] \/ dependency = obj_name \/ room
        /\ IF dependency # obj_name
           THEN /\ dependencies' = [dependencies EXCEPT ![obj_name] = @ \cup {dependency}]
                /\ IF obj_name \in Range(dependents[dependency])
                   THEN dependents' = dependents
                   ELSE \E s \in InsertAnywhere(dependents[dependency], obj_name) :
                            dependents' = [dependents EXCEPT ![dependency] = s]
           ELSE UNCHANGED <<dependencies, dependents>>
    /\ UNCHANGED object_types

\* The leftover objects as the latest call listed them (the tail of its result).
LeftoverOrder(res, rem) == SubSeq(res, Len(res) - Cardinality(rem) + 1, Len(res))

\* The iteration order of the fresh set `remaining` depends on the process's string
\* hashes: any order the first time, and the same order again when the same set is
\* built again in the same process.
topological_sort ==
    \E k \in {Kahn(object_types, dependencies, dependents)} :
      \E horder \in NameOrderings[k.remaining] :
        /\ sorted => Restrict(horder, warned) = LeftoverOrder(result, warned)
        /\ result' = Extend(k.result, k.remaining, horder)
        /\ warned' = k.remaining
        /\ iters' = k.iters
        /\ dependents' = k.dependents
        /\ sorted' = TRUE
        /\ repeated' = sorted
        /\ UNCHANGED <<object_types, dependencies, migVars, textVars, restVars>>

NextGraph == add_object \/ add_dependency \/ topological_sort

SpecGraph == InitGraph /\ [][NextGraph]_vars

\* ------------------------------------------------------------------------
\* Texts: a Python str is a sequence of one-character strings
\* ------------------------------------------------------------------------
UpperChars == <<"A", "B", "C", "D", "E", "F", "G", "H", "I", "J", "K", "L", "M",
                "N", "O", "P", "Q", "R", "S", "T", "U", "V", "W", "X", "Y", "Z">>

LowerChars == <<"a", "b", "c", "d", "e", "f", "g", "h", "i", "j", "k", "l", "m",
                "n", "o", "p", "q", "r", "s", "t", "u", "v", "w", "x", "y", "z">>

DigitChars == {"0", "1", "2", "3", "4", "5", "6", "7", "8", "9"}

\* str.lower() on one character
LowerChar(c) ==
    IF \E i \in DOMAIN UpperChars : UpperChars[i] = c
    THEN LowerChars[CHOOSE i \in DOMAIN UpperChars : UpperChars[i] = c]
    ELSE c

\* str.lower()
Lower(t) == [i \in DOMAIN t |-> LowerChar(t[i])]

\* \s of the re module
IsSpace(c) == c \in {" ", "\t", "\n", "\r", "\f"}

\* \w of the re module
IsWordChar(c) == LowerChar(c) \in Range(LowerChars) \/ c \in DigitChars \/ c = "_"

\* The character U+FEFF (byte order mark), as one element of a text.
BomChar == "BOM"

\* pat occurs in t at index i (compared in lower case when ci)
MatchAt(t, i, pat, ci) ==
    /\ i >= 1
    /\ i + Len(pat) - 1 <= Len(t)
    /\ \A k \in 1..Len(pat) :
           IF ci THEN LowerChar(t[i + k - 1]) = LowerChar(pat[k]) ELSE t[i + k - 1] = pat[k]

\* Least index >= from at which pat occurs in t, 0 when there is none.
Find(t, pat, from, ci) ==
    LET hits == {i \in from..Len(t) : MatchAt(t, i, pat, ci)}
    IN IF hits = {} THEN 0 ELSE CHOOSE i \in hits : \A j \in hits : i <= j

\* Index just after the run of whitespace that starts at i.
RECURSIVE SkipSpace(_, _)
SkipSpace(t, i) == IF i <= Len(t) /\ IsSpace(t[i]) THEN SkipSpace(t, i + 1) ELSE i

\* t[i..] (empty when i is past the end)
From(t, i) == SubSeq(t, i, Len(t))

\* ------------------------------------------------------------------------
\* AzureSQLImporter._normalize_sql
\* ------------------------------------------------------------------------
CommentOpen == <<"/", "*">>

CommentClose == <<"*", "/">>

ScriptDate == <<"S", "c", "r", "i", "p", "t", " ", "D", "a", "t", "e", ":">>

SetAnsiNullsOn == <<"S", "E", "T", " ", "A", "N", "S", "I", "_", "N", "U", "L", "L", "S", " ", "O", "N">>

SetQuotedIdentifierOn ==
    <<"S", "E", "T", " ", "Q", "U", "O", "T", "E", "D", "_",
      "I", "D", "E", "N", "T", "I", "F", "I", "E", "R", " ", "O", "N">>

Go == <<"G", "O">>

\* 'generated on', 'script date', 'object:', 'table schema for'
MetaMarkers ==
    {<<"g", "e", "n", "e", "r", "a", "t", "e", "d", " ", "o", "n">>,
     <<"s", "c", "r", "i", "p", "t", " ", "d", "a", "t", "e">>,
     <<"o", "b", "j", "e", "c", "t", ":">>,
     <<"t", "a", "b", "l", "e", " ", "s", "c", "h", "e", "m", "a", " ", "f", "o", "r">>}

\* re.sub(r'/\*.*?Script Date:.*?\*/', '', sql_text, flags=re.DOTALL), from index i on:
\* the leftmost "/*" that has "Script Date:" and then "*/" after it starts a match
\* (when the leftmost has none, no later one has), which ends at the first such "*/".
RECURSIVE StripScriptDateBlocks(_, _)
StripScriptDateBlocks(t, i) ==
    LET o == Find(t, CommentOpen, i, FALSE)
        j == IF o # 0 THEN Find(t, ScriptDate, o + 2, FALSE) ELSE 0
        k == IF j # 0 THEN Find(t, CommentClose, j + Len(ScriptDate), FALSE) ELSE 0
    IN IF k = 0 THEN From(t, i)
       ELSE SubSeq(t, i, o - 1) \o StripScriptDateBlocks(t, k + 2)

\* A pass that removes no statement
KeepLiteral(t, pat, i) == From(t, i)

\* re.sub(pat + r'\s*', '', sql_text, flags=re.IGNORECASE) for a literal pat, from index i on
RECURSIVE StripLiteral(_, _, _)
StripLiteral(t, pat, i) ==
    LET m == Find(t, pat, i, TRUE)
    IN IF m = 0 THEN From(t, i)
       ELSE SubSeq(t, i, m - 1) \o StripLiteral(t, pat, SkipSpace(t, m + Len(pat)))

\* re.sub(r'/\*.*?\*/', '', sql_text, flags=re.DOTALL), from index i on
RECURSIVE StripBlockComments(_, _)
StripBlockComments(t, i) ==
    LET o == Find(t, CommentOpen, i, FALSE)
        k == IF o # 0 THEN Find(t, CommentClose, o + 2, FALSE) ELSE 0
    IN IF k = 0 THEN From(t, i)
       ELSE SubSeq(t, i, o - 1) \o StripBlockComments(t, k + 2)

\* sql_text.split('\n')
RECURSIVE SplitLines(_)
SplitLines(t) ==
    LET n == Find(t, <<"\n">>, 1, FALSE)
    IN IF n = 0 THEN <<t>> ELSE <<SubSeq(t, 1, n - 1)>> \o SplitLines(From(t, n + 1))

\* line.strip()
RECURSIVE RStrip(_)
RStrip(t) == IF t # <<>> /\ IsSpace(t[Len(t)]) THEN RStrip(SubSeq(t, 1, Len(t) - 1)) ELSE t

Strip(t) == RStrip(From(t, SkipSpace(t, 1)))

\* re.sub(r'\s+', ' ', line), from index i on
RECURSIVE CollapseSpace(_, _)
CollapseSpace(t, i) ==
    LET spaces == {k \in i..Len(t) : IsSpace(t[k])}
        m == IF spaces = {} THEN 0 ELSE CHOOSE k \in spaces : \A x \in spaces : k <= x
    IN IF m = 0 THEN From(t, i)
       ELSE SubSeq(t, i, m - 1) \o <<" ">> \o CollapseSpace(t, SkipSpace(t, m))

\* any(meta in line.lower() for meta in [...])
IsMetadataComment(line) == \E meta \in MetaMarkers : Find(Lower(line), meta, 1, FALSE) # 0

\* The loop over the lines: the lines that are kept, each normalized.
RECURSIVE NormalizedLines(_)
NormalizedLines(lines) ==
    IF lines = <<>> THEN <<>>
    ELSE LET line == Strip(Head(lines))
             rest == NormalizedLines(Tail(lines))
         IN IF line = <<>> THEN rest
            ELSE IF MatchAt(line, 1, <<"-", "-">>, FALSE)
                 THEN IF IsMetadataComment(line) THEN rest ELSE <<line>> \o rest
            ELSE <<CollapseSpace(line, 1)>> \o rest

\* '\n'.join(lines)
RECURSIVE JoinLines(_)
JoinLines(lines) ==
    IF lines = <<>> THEN <<>>
    ELSE IF Len(lines) = 1 THEN Head(lines)
    ELSE Head(lines) \o <<"\n">> \o JoinLines(Tail(lines))

\* AzureSQLImporter._normalize_sql
_normalize_sql(sql_text) ==
    IF sql_text = <<>> THEN <<>>
    ELSE LET t1 == StripScriptDateBlocks(sql_text, 1)
             t2 == StripLiteral(t1, SetAnsiNullsOn, 1)
             t3 == StripLiteral(t2, SetQuotedIdentifierOn, 1)
             t4 == StripLiteral(t3, Go, 1)
             t5 == StripBlockComments(t4, 1)
         IN JoinLines(NormalizedLines(SplitLines(t5)))

\* ------------------------------------------------------------------------
\* pyazs/migrate.py: _definition_for_update
\* ------------------------------------------------------------------------
CreateWord == <<"c", "r", "e", "a", "t", "e">>

OrWord == <<"o", "r">>

AlterWord == <<"a", "l", "t", "e", "r">>

\* view|procedure|function|trigger
KindWords ==
    {<<"v", "i", "e", "w">>,
     <<"p", "r", "o", "c", "e", "d", "u", "r", "e">>,
     <<"f", "u", "n", "c", "t", "i", "o", "n">>,
     <<"t", "r", "i", "g", "g", "e", "r">>}

\* The text the header keyword is replaced by: "ALTER"
AlterKeyword == <<"A", "L", "T", "E", "R">>

RewrittenTypes == {"Views", "StoredProcedures", "Functions", "Triggers"}

\* \s+ at index i: the index after the run, 0 when t[i] is no whitespace
SpaceRunEnd(t, i) == IF i <= Len(t) /\ IsSpace(t[i]) THEN SkipSpace(t, i) ELSE 0

\* (view|procedure|function|trigger)\b at index i: the index after the keyword, else 0
KindEnd(t, i) ==
    LET ws == {w \in KindWords :
                   /\ MatchAt(t, i, w, TRUE)
                   /\ (i + Len(w) > Len(t) \/ ~IsWordChar(t[i + Len(w)]))}
    IN IF ws = {} THEN 0 ELSE i + Len(CHOOSE w \in ws : TRUE)

\* The groups of a match: group 1 is t[p..create-1] for a match tried from p, group 2
\* is t[space..kind-1], group 3 is t[kind..rest-1].
HeaderGroups(ok, c, x, k, e) == [ok |-> ok, create |-> c, space |-> x, kind |-> k, rest |-> e]

NoHeader == HeaderGroups(FALSE, 0, 0, 0, 0)

\* (view|procedure|function|trigger)\b after the whitespace t[x..k-1]
KindAt(t, c, x, k) ==
    IF k # 0 /\ KindEnd(t, k) # 0 THEN HeaderGroups(TRUE, c, x, k, KindEnd(t, k)) ELSE NoHeader

\* (\s+)(view|procedure|function|trigger)\b at index x
KindAfterSpace(t, c, x) == KindAt(t, c, x, SpaceRunEnd(t, x))

\* alter(\s+)(view|...)\b at index o, which follows whitespace when o # 0
AlterAt(t, c, o) ==
    IF o # 0 /\ MatchAt(t, o, AlterWord, TRUE)
    THEN KindAfterSpace(t, c, o + Len(AlterWord)) ELSE NoHeader

\* or\s+alter(\s+)(view|...)\b at index o, which follows whitespace when o # 0
OrAt(t, c, o) ==
    IF o # 0 /\ MatchAt(t, o, OrWord, TRUE)
    THEN AlterAt(t, c, SpaceRunEnd(t, o + Len(OrWord))) ELSE NoHeader

\* (?:...)? is tried first, and the pattern without it when that fails
FirstOf(long, short) == IF long.ok THEN long ELSE short

\* create(?:\s+or\s+alter)?(\s+)(view|procedure|function|trigger)\b at index c
CreateAt(t, c) ==
    IF MatchAt(t, c, CreateWord, TRUE)
    THEN FirstOf(OrAt(t, c, SpaceRunEnd(t, c + Len(CreateWord))),
                 KindAfterSpace(t, c, c + Len(CreateWord)))
    ELSE NoHeader

\* (\s*)create(?:\s+or\s+alter)?(\s+)(view|procedure|function|trigger)\b from index p
HeaderMatch(t, p) == CreateAt(t, SkipSpace(t, p))

\* repl: group 1, "ALTER", group 2, group 3; then the text after the match
Rewritten(t, p, m) ==
    SubSeq(t, p, m.create - 1) \o AlterKeyword \o SubSeq(t, m.space, m.rest - 1)
        \o From(t, m.rest)

\* (?m)^: the starts of the lines where line_pattern matches
LineStarts(t) ==
    {q \in 1..(Len(t) + 1) : (q = 1 \/ t[q - 1] = "\n") /\ HeaderMatch(t, q).ok}

\* line_pattern.subn(repl, definition, count=1), the match starting at index q
RewrittenLine(t, q) == SubSeq(t, 1, q - 1) \o Rewritten(t, q, HeaderMatch(t, q))

\* line_pattern.subn(repl, definition, count=1): the leftmost match
LinePattern(t, starts) ==
    IF starts = {} THEN t
    ELSE RewrittenLine(t, CHOOSE q \in starts : \A y \in starts : q <= y)

\* start_pattern.subn(repl, definition, count=1) with the match m tried after the
\* optional ﻿, which repl leaves out; the fallback when it does not match
StartPattern(t, p, m) == IF m.ok THEN Rewritten(t, p, m) ELSE LinePattern(t, LineStarts(t))

\* ^﻿?
AfterBom(t) == IF Len(t) >= 1 /\ t[1] = BomChar THEN 2 ELSE 1

\* _definition_for_update(obj_type, definition)
_definition_for_update(obj_type, definition) ==
    IF obj_type \in RewrittenTypes
    THEN StartPattern(definition, AfterBom(definition),
                      HeaderMatch(definition, AfterBom(definition)))
    ELSE definition

\* ------------------------------------------------------------------------
\* The catalogs generate_migration compares
\* ------------------------------------------------------------------------
\* A definition OBJECT_DEFINITION reports as NULL (get_db_objects keeps it as None),
\* and the result of dict.get for a missing key
None == <<"None">>

\* schema_name
SchemaName == <<"d", "b", "o">>

\* The object names of each type
TypeNames ==
    [t \in ObjectTypes |->
        CASE t = "Tables" -> {<<"T">>}
          [] t = "Views" -> {<<"V">>, <<"v">>, <<"W">>}
          [] t = "StoredProcedures" -> {<<"P">>}
          [] OTHER -> {}]

TableA == <<"C", "R", "E", "A", "T", "E", " ", "T", "A", "B", "L", "E", " ", "T", " ", "(", "a", " ", "i", "n", "t", ")">>

TableB == <<"C", "R", "E", "A", "T", "E", " ", "T", "A", "B", "L", "E", " ", "T", " ", "(", "b", " ", "i", "n", "t", ")">>

ViewA == <<"C", "R", "E", "A", "T", "E", " ", "V", "I", "E", "W", " ", "V", " ", "A", "S", " ", "S", "E", "L", "E", "C", "T", " ", "a", " ", "F", "R", "O", "M", " ", "T">>

\* ViewA with one more blank
ViewASpaced == <<"C", "R", "E", "A", "T", "E", " ", "V", "I", "E", "W", " ", "V", " ", "A", "S", " ", "S", "E", "L", "E", "C", "T", " ", "a", " ", " ", "F", "R", "O", "M", " ", "T">>

ViewB == <<"C", "R", "E", "A", "T", "E", " ", "V", "I", "E", "W", " ", "V", " ", "A", "S", " ", "S", "E", "L", "E", "C", "T", " ", "b", " ", "F", "R", "O", "M", " ", "T">>

\* A view that reads the view V
ViewOnV == <<"C", "R", "E", "A", "T", "E", " ", "V", "I", "E", "W", " ", "W", " ", "A", "S", " ", "S", "E", "L", "E", "C", "T", " ", "a", " ", "F", "R", "O", "M", " ", "V">>

ProcA == <<"c", "r", "e", "a", "t", "e", " ", "o", "r", " ", "a", "l", "t", "e", "r", " ", "p", "r", "o", "c", "e", "d", "u", "r", "e", " ", "P", " ", "a", "s", " ", "s", "e", "l", "e", "c", "t", " ", "a", " ", "f", "r", "o", "m", " ", "T">>

\* The definition texts of each type
TypeDefinitions ==
    [t \in ObjectTypes |->
        CASE t = "Tables" -> {TableA, TableB}
          [] t = "Views" -> {ViewA, ViewASpaced, ViewB, ViewOnV}
          [] t = "StoredProcedures" -> {ProcA}
          [] OTHER -> {}]

\* The texts each object can have
NameDefinitions(name) ==
    CASE name = <<"T">> -> {TableA, TableB}
      [] name = <<"V">> -> {ViewA, ViewASpaced, ViewB}
      [] name = <<"v">> -> {ViewA, ViewB}
      [] name = <<"W">> -> {ViewB, ViewOnV}
      [] name = <<"P">> -> {ProcA}

\* The rows of the given names, in the given order, each with one of its texts or
\* with a definition among defs
Rows(ns, defs) ==
    {[i \in DOMAIN ns |-> [name |-> ns[i], definition |-> f[i]]] :
        f \in {g \in [DOMAIN ns -> defs] :
                  \A i \in DOMAIN ns : g[i] \in NameDefinitions(ns[i]) \cup {None}}}

\* The dicts a type can hold: any of its names, in any order
TypeRows(t, defs) ==
    UNION {UNION {Rows(ns, defs) : ns \in Orderings(S)} : S \in SUBSET TypeNames[t]}

\* get_db_objects(cursor, obj_type, schema_name, include_null=True): a definition may be None
DbRows == [t \in ObjectTypes |-> TypeRows(t, TypeDefinitions[t] \cup {None})]

\* get_file_objects(folder): every file has a text
FileRows == [t \in ObjectTypes |-> TypeRows(t, TypeDefinitions[t])]

\* The number of objects of a catalog
RECURSIVE NumObjects(_, _)
NumObjects(cat, i) ==
    IF i = 0 THEN 0 ELSE Len(cat[OBJECT_QUERIES[i]]) + NumObjects(cat, i - 1)

\* The catalogs of at most n objects over the first i types
RECURSIVE Catalogs(_, _, _)
Catalogs(rows, i, n) ==
    IF i = 0 THEN {[t \in ObjectTypes |-> <<>>]}
    ELSE UNION {{[c EXCEPT ![OBJECT_QUERIES[i]] = r] : c \in Catalogs(rows, i - 1, n - Len(r))} :
                    r \in {x \in rows[OBJECT_QUERIES[i]] : Len(x) <= n}}

\* ------------------------------------------------------------------------
\* pyazs/migrate.py: generate_migration
\* ------------------------------------------------------------------------
\* The type names as texts
TypeText ==
    [t \in ObjectTypes |->
        CASE t = "Tables" -> <<"T", "a", "b", "l", "e", "s">>
          [] t = "Views" -> <<"V", "i", "e", "w", "s">>
          [] t = "StoredProcedures" -> <<"S", "t", "o", "r", "e", "d", "P", "r", "o", "c", "e", "d", "u", "r", "e", "s">>
          [] t = "Functions" -> <<"F", "u", "n", "c", "t", "i", "o", "n", "s">>
          [] t = "Triggers" -> <<"T", "r", "i", "g", "g", "e", "r", "s">>]

\* The keyword of the DROP statement of each type
DropKeyword ==
    [t \in ObjectTypes |->
        CASE t = "Tables" -> <<"T", "A", "B", "L", "E">>
          [] t = "Views" -> <<"V", "I", "E", "W">>
          [] t = "StoredProcedures" -> <<"P", "R", "O", "C", "E", "D", "U", "R", "E">>
          [] t = "Functions" -> <<"F", "U", "N", "C", "T", "I", "O", "N">>
          [] t = "Triggers" -> <<"T", "R", "I", "G", "G", "E", "R">>]

\* obj_type[:-1]
ButLast(t) == SubSeq(t, 1, Len(t) - 1)

\* name + " (definition unavailable)"
Unavailable == <<" ", "(", "d", "e", "f", "i", "n", "i", "t", "i", "o", "n", " ", "u", "n", "a", "v", "a", "i", "l", "a", "b", "l", "e", ")">>

\* f"-- Create {obj_type[:-1]}: {name}\n{db_def}\nGO\n"
CreateStatement(obj_type, name, db_def) ==
    <<"-", "-", " ", "C", "r", "e", "a", "t", "e", " ">> \o ButLast(TypeText[obj_type]) \o <<":", " ">> \o name \o <<"\n">>
        \o db_def \o <<"\n", "G", "O", "\n">>

\* f"-- Update {obj_type[:-1]}: {name}\n{_definition_for_update(obj_type, file_def)}\nGO\n"
UpdateStatement(obj_type, name, file_def) ==
    <<"-", "-", " ", "U", "p", "d", "a", "t", "e", " ">> \o ButLast(TypeText[obj_type]) \o <<":", " ">> \o name \o <<"\n">>
        \o _definition_for_update(obj_type, file_def) \o <<"\n", "G", "O", "\n">>

\* f"DROP VIEW [{schema_name}].[{name}];\n", with the keyword of the type
DropStatement(obj_type, name) ==
    <<"D", "R", "O", "P", " ">> \o DropKeyword[obj_type] \o <<" ", "[">> \o SchemaName \o <<"]", ".", "[">> \o name \o <<"]", ";", "\n">>

\* An element of migration_sql: the statement, kept with the bucket, the type and the
\* name it was appended for and with the definition it was formatted from.
Entry(op, obj_type, name, definition, sql) ==
    [op |-> op, obj_type |-> obj_type, name |-> name, definition |-> definition, sql |-> sql]

\* dict.get(name): the value of the key, None when the dict has no such key
DictGet(objs, name) ==
    IF \E i \in DOMAIN objs : objs[i].name = name
    THEN objs[CHOOSE i \in DOMAIN objs : objs[i].name = name].definition
    ELSE None

\* {k.lower(): v for k, v in file_objs.items()}.get(key): of the files whose lower-cased
\* names are equal, the one listed last stays
LowerKeyedGet(objs, key) ==
    LET is == {i \in DOMAIN objs : Lower(objs[i].name) = key}
    IN IF is = {} THEN None
       ELSE objs[CHOOSE i \in is : \A j \in is : j <= i].definition

\* if file_def is None: file_def = <the other lookup>
IfNone(file_def, other) == IF file_def = None THEN other ELSE file_def

\* file_def = file_objs.get(name), else file_objs_ci.get(name.lower())
FileDef(file_objs, name) ==
    IfNone(DictGet(file_objs, name), LowerKeyedGet(file_objs, Lower(name)))

\* Mutant of Differs: the texts are compared after _normalize_sql.
DiffersNormalized(file_def, db_def) == _normalize_sql(file_def) # _normalize_sql(db_def)

\* file_def != db_def
Differs(file_def, db_def) == file_def # db_def

\* What the body of `for name, db_def in db_objs.items()` appends to created, to
\* updated and to migration_sql
Appended(cr, up, sql) == [created |-> cr, updated |-> up, sql |-> sql]

\* The body of `for name, db_def in db_objs.items()`, file_def looked up
DbObjectVerdict(obj_type, name, db_def, file_def) ==
    IF file_def = None
    THEN IF db_def = None
         THEN Appended(<<name \o Unavailable>>, <<>>, <<>>)
         ELSE Appended(<<name>>, <<>>,
                       <<Entry("Created", obj_type, name, db_def,
                               CreateStatement(obj_type, name, db_def))>>)
    ELSE IF db_def = None THEN Appended(<<>>, <<>>, <<>>)
    ELSE IF Differs(file_def, db_def)
         THEN Appended(<<>>, <<name>>,
                       <<Entry("Updated", obj_type, name, file_def,
                               UpdateStatement(obj_type, name, file_def))>>)
    ELSE Appended(<<>>, <<>>, <<>>)

\* One iteration of `for name, db_def in db_objs.items()`
DbObjectStep(obj_type, row, file_objs) ==
    DbObjectVerdict(obj_type, row.name, row.definition, FileDef(file_objs, row.name))

\* The lists after one more iteration
AfterStep(before, step) ==
    Appended(before.created \o step.created, before.updated \o step.updated,
             before.sql \o step.sql)

\* for name, db_def in db_objs.items(): the first i rows
RECURSIVE DbObjectsLoop(_, _, _, _)
DbObjectsLoop(obj_type, db_objs, file_objs, i) ==
    IF i = 0 THEN Appended(<<>>, <<>>, <<>>)
    ELSE AfterStep(DbObjectsLoop(obj_type, db_objs, file_objs, i - 1),
                   DbObjectStep(obj_type, db_objs[i], file_objs))

\* db_names_lower
DbNamesLower(db_objs) == {Lower(db_objs[i].name) : i \in DOMAIN db_objs}

\* The body of `for name, file_def in file_objs.items()`
FileObjectStep(obj_type, db_objs, name, before) ==
    IF Lower(name) \notin DbNamesLower(db_objs)
    THEN [dropped |-> Append(before.dropped, name),
          sql |-> Append(before.sql,
                         Entry("Dropped", obj_type, name, None,
                               DropStatement(obj_type, name)))]
    ELSE before

\* for name, file_def in file_objs.items(): the first i files
RECURSIVE FileObjectsLoop(_, _, _, _)
FileObjectsLoop(obj_type, db_objs, file_objs, i) ==
    IF i = 0 THEN [dropped |-> <<>>, sql |-> <<>>]
    ELSE FileObjectStep(obj_type, db_objs, file_objs[i].name,
                        FileObjectsLoop(obj_type, db_objs, file_objs, i - 1))

\* Mutant of TypeStatements: the DROP statements of a type come before its other statements.
DropsFirst(changes, drops) == drops \o changes

\* What one iteration of `for obj_type in OBJECT_QUERIES` appends to migration_sql:
\* the statements of its first loop, then those of its second
TypeStatements(changes, drops) == changes \o drops

\* The lists and buckets after the iteration for obj_type
AfterType(before, obj_type, changes, drops) ==
    [migration_sql |-> before.migration_sql \o TypeStatements(changes.sql, drops.sql),
     created |-> [before.created EXCEPT ![obj_type] = changes.created],
     updated |-> [before.updated EXCEPT ![obj_type] = changes.updated],
     dropped |-> [before.dropped EXCEPT ![obj_type] = drops.dropped]]

\* One iteration of `for obj_type in OBJECT_QUERIES`
TypeStep(before, obj_type, db_objs, file_objs) ==
    AfterType(before, obj_type,
              DbObjectsLoop(obj_type, db_objs, file_objs, Len(db_objs)),
              FileObjectsLoop(obj_type, db_objs, file_objs, Len(file_objs)))

\* for obj_type in OBJECT_QUERIES: the first i types
RECURSIVE TypesLoop(_, _, _)
TypesLoop(dbc, filec, i) ==
    IF i = 0
    THEN [migration_sql |-> <<>>, created |-> NoObjects, updated |-> NoObjects,
          dropped |-> NoObjects]
    ELSE TypeStep(TypesLoop(dbc, filec, i - 1), OBJECT_QUERIES[i],
                  dbc[OBJECT_QUERIES[i]], filec[OBJECT_QUERIES[i]])

\* max(nums, default=0) + 1
NextNum(migs) ==
    IF migs = <<>> THEN 1
    ELSE 1 + (CHOOSE n \in {migs[i].num : i \in DOMAIN migs} :
                  \A i \in DOMAIN migs : migs[i].num <= n)

\* A counts row that repeats the Created count under Updated
SummaryRowRepeated(plan, typ) ==
    <<Len(plan.created[typ]), Len(plan.created[typ]), Len(plan.dropped[typ])>>

\* f"-- | {typ} | {c} | {u} | {d} |": the counts c, u, d of the row of typ
SummaryRow(plan, typ) ==
    <<Len(plan.created[typ]), Len(plan.updated[typ]), Len(plan.dropped[typ])>>

\* The file update{next_num:04d}.sql: its number, the counts table of its summary, the
\* buckets its details table is written from, and its SQL body
MigrationFile(migs, plan) ==
    [num |-> NextNum(migs),
     summary |-> [typ \in ObjectTypes |-> SummaryRow(plan, typ)],
     created |-> plan.created, updated |-> plan.updated,
     dropped |-> plan.dropped, sql |-> plan.migration_sql]

\* generate_migration(config, sql_schema_dir, migrations_dir, schema_name)
generate_migration ==
    /\ Len(migrations) < MaxMigrations
    /\ \E plan \in {TypesLoop(db, files, Len(OBJECT_QUERIES))} :
        /\ migration_sql' = plan.migration_sql
        /\ created' = plan.created
        /\ updated' = plan.updated
        /\ dropped' = plan.dropped
        /\ migrations' = IF plan.migration_sql # <<>>
                         THEN Append(migrations, MigrationFile(migrations, plan))
                         ELSE migrations
    /\ phase' = IF phase = "applied" THEN "replanned" ELSE "planned"
    /\ UNCHANGED <<catalogVars, graphVars, textVars, restVars>>

\* ------------------------------------------------------------------------
\* scripts/apply_latest_migration.py
\* ------------------------------------------------------------------------
\* The index of the row of the given name, 0 when there is none
RowOf(objs, name) ==
    IF \E i \in DOMAIN objs : objs[i].name = name
    THEN CHOOSE i \in DOMAIN objs : objs[i].name = name
    ELSE 0

\* The statement of an Updated entry is an ALTER when the header was rewritten,
\* and the CREATE of the file otherwise.
IsAlter(e) ==
    e.op = "Updated" /\ _definition_for_update(e.obj_type, e.definition) # e.definition

\* objs without its i-th row
Without(objs, i) == SubSeq(objs, 1, i - 1) \o SubSeq(objs, i + 1, Len(objs))

\* The answer to statement e about the i-th row of its type (no row when i = 0): the
\* server rejects the CREATE of an object that exists and the ALTER or DROP of one
\* that does not; otherwise the object takes the definition the statement was
\* formatted from.
Answer(dbc, e, objs, i) ==
    CASE e.op = "Dropped" ->
           [ok |-> i # 0, db |-> [dbc EXCEPT ![e.obj_type] = Without(objs, i)]]
      [] IsAlter(e) ->
           [ok |-> i # 0,
            db |-> IF i # 0 THEN [dbc EXCEPT ![e.obj_type][i].definition = e.definition]
                   ELSE dbc]
      [] OTHER ->
           [ok |-> i = 0,
            db |-> [dbc EXCEPT ![e.obj_type] =
                        Append(objs, [name |-> e.name, definition |-> e.definition])]]

\* cur.execute(b) for the batch of one statement; it raises when the server rejects it
ExecuteEntry(dbc, e) == Answer(dbc, e, dbc[e.obj_type], RowOf(dbc[e.obj_type], e.name))

\* for b in batches: cur.execute(b) -- the statements from the i-th on; the exception
\* of a rejected statement ends the script
RECURSIVE ExecuteFrom(_, _, _)
ExecuteFrom(dbc, sql, i) ==
    IF i > Len(sql) THEN dbc
    ELSE IF ExecuteEntry(dbc, sql[i]).ok
         THEN ExecuteFrom(ExecuteEntry(dbc, sql[i]).db, sql, i + 1)
         ELSE dbc

\* main(): the statements of sorted(paths)[-1] are executed. The file is the plan of
\* the latest generate_migration when that run wrote one.
apply_latest_migration ==
    /\ migrations # <<>>
    /\ db' = ExecuteFrom(db, migrations[Len(migrations)].sql, 1)
    /\ phase' = IF phase \in {"planned", "replanned"} /\ migration_sql # <<>>
                THEN "applied" ELSE "stale"
    /\ UNCHANGED <<files, planVars, migrations, graphVars, textVars, restVars>>

\* A database and a schema directory of at most MaxObjects objects together; nothing
\* has been generated.
InitMig ==
    /\ NewAnalyzer
    /\ db \in Catalogs(DbRows, Len(OBJECT_QUERIES), MaxObjects)
    /\ files \in Catalogs(FileRows, Len(OBJECT_QUERIES),
                          MaxObjects - NumObjects(db, Len(OBJECT_QUERIES)))
    /\ NoPlan
    /\ NoDiff
    /\ NoUpdate
    /\ NoRest

NextMig == generate_migration \/ apply_latest_migration

SpecMig == InitMig /\ [][NextMig]_vars

\* ------------------------------------------------------------------------
\* The two comparisons of a desired definition with an actual one:
\* SqlImporter.compare_schemas (azure_sql_import.py) and the loop body of
\* generate_migration (pyazs/migrate.py)
\* ------------------------------------------------------------------------
\* compare_schemas(new_schema, existing_schema, object_name): "New object" for the
\* one-line answer about a missing object, "No differences found" for that answer,
\* "diff" for a non-empty unified_diff of the stripped texts' lines
compare_schemas(new_schema, existing_schema) ==
    IF existing_schema = <<>> THEN "New object"
    ELSE IF _normalize_sql(new_schema) = _normalize_sql(existing_schema)
         THEN "No differences found"
    ELSE IF SplitLines(Strip(new_schema)) # SplitLines(Strip(existing_schema))
         THEN "diff"
    ELSE "No differences found"

\* How many of AllBodies are compared
NumBodies == 3

\* Statements of the same view: the second differs from the first in a column
\* name, the third in a longer column name, the fourth in the case of a keyword,
\* the fifth in a comment.
AllBodies ==
    << <<"C", "R", "E", "A", "T", "E", " ", "V", "I", "E", "W", " ", "V", " ", "A", "S", " ", "S", "E", "L", "E", "C", "T", " ", "a">>,
       <<"C", "R", "E", "A", "T", "E", " ", "V", "I", "E", "W", " ", "V", " ", "A", "S", " ", "S", "E", "L", "E", "C", "T", " ", "b">>,
       <<"C", "R", "E", "A", "T", "E", " ", "V", "I", "E", "W", " ", "V", " ", "A", "S", " ", "S", "E", "L", "E", "C", "T", " ", "a", "g", "o">>,
       <<"C", "R", "E", "A", "T", "E", " ", "V", "I", "E", "W", " ", "V", " ", "A", "S", " ", "s", "e", "l", "e", "c", "t", " ", "a">>,
       <<"C", "R", "E", "A", "T", "E", " ", "V", "I", "E", "W", " ", "V", " ", "A", "S", " ", "S", "E", "L", "E", "C", "T", " ", "a", " ", "/", "*", " ", "b", " ", "*", "/">> >>

Bodies == {AllBodies[i] : i \in 1..NumBodies}

\* What a scripting tool puts around a statement
Decorations == {"header", "ansi", "quoted", "go"}

NewLine == <<"\n">>

\* The header comment of a scripted object
HeaderBlock == <<"/", "*", " ", "O", "b", "j", "e", "c", "t", ":", " ", "V", " ", "S", "c", "r", "i", "p", "t", " ", "D", "a", "t", "e", ":", " ", "1", "/", "1", " ", "*", "/">>

\* The statement `body` as scripted with the decorations d
Decorated(body, d) ==
    (IF "header" \in d THEN HeaderBlock \o NewLine ELSE <<>>)
    \o (IF "ansi" \in d THEN SetAnsiNullsOn \o NewLine ELSE <<>>)
    \o (IF "quoted" \in d THEN SetQuotedIdentifierOn \o NewLine ELSE <<>>)
    \o (IF "go" \in d /\ d # {"go"} THEN Go \o NewLine ELSE <<>>)
    \o body
    \o (IF "go" \in d THEN NewLine \o Go ELSE <<>>)

\* Every scripted form of the statement
Scripted(body) == {Decorated(body, d) : d \in SUBSET Decorations}

DefinitionTexts == UNION {Scripted(body) : body \in Bodies}

\* The object the two definitions are of
ComparedType == "Views"

ComparedName == <<"V">>

\* A file definition and a database definition of the object; the importer reads
\* "" for an object the database does not have.
InitDiff ==
    /\ NewAnalyzer
    /\ db = NoObjects
    /\ files = NoObjects
    /\ NoPlan
    /\ NoUpdate
    /\ NoRest
    /\ file_text \in DefinitionTexts
    /\ db_text \in DefinitionTexts \cup {<<>>}
    /\ differences = ""
    /\ appended = <<>>

\* import_schema_objects: differences = self.compare_schemas(new_schema, existing_schema, full_name)
import_compare ==
    /\ differences = ""
    /\ differences' = compare_schemas(file_text, db_text)
    /\ UNCHANGED <<file_text, db_text, appended, graphVars, migVars, updateVars, restVars>>

\* generate_migration: one iteration of `for name, db_def in db_objs.items()` for an
\* object that has a file
migration_compare ==
    /\ appended = <<>>
    /\ appended' = <<DbObjectVerdict(ComparedType, ComparedName, db_text, file_text)>>
    /\ UNCHANGED <<file_text, db_text, differences, graphVars, migVars, updateVars, restVars>>

NextDiff == import_compare \/ migration_compare

SpecDiff == InitDiff /\ [][NextDiff]_vars

\* ------------------------------------------------------------------------
\* The two rewritings of the header of a desired definition: _definition_for_update
\* (pyazs/migrate.py) and the CREATE OR ALTER of import_schema_objects
\* (azure_sql_import.py)
\* ------------------------------------------------------------------------
\* str.upper() of one character
UpperChar(c) ==
    IF \E i \in DOMAIN LowerChars : LowerChars[i] = c
    THEN UpperChars[CHOOSE i \in DOMAIN LowerChars : LowerChars[i] = c]
    ELSE c

\* line.strip().upper()
StripUpper(line) == [i \in DOMAIN Strip(line) |-> UpperChar(Strip(line)[i])]

CreateSpace == <<"C", "R", "E", "A", "T", "E", " ">>

AlterSpace == <<"A", "L", "T", "E", "R", " ">>

CreateOrAlterSpace == <<"C", "R", "E", "A", "T", "E", " ", "O", "R", " ", "A", "L", "T", "E", "R", " ">>

\* line.replace(old, new, 1) with the first occurrence of old at index m (0: none)
ReplacedAt(line, old, new, m) ==
    IF m = 0 THEN line
    ELSE SubSeq(line, 1, m - 1) \o new \o From(line, m + Len(old))

\* line.replace(old, 'CREATE OR ALTER ', 1)
ReplaceFirst(line, old) ==
    ReplacedAt(line, old, CreateOrAlterSpace, Find(line, old, 1, FALSE))

\* line_upper.startswith('CREATE ') or line_upper.startswith('ALTER ')
StartsStatement(upper) == MatchAt(upper, 1, CreateSpace, FALSE) \/ MatchAt(upper, 1, AlterSpace, FALSE)

\* modified_line of a line whose line_upper starts a statement
ModifiedLine(line, upper) ==
    IF MatchAt(upper, 1, CreateSpace, FALSE) THEN ReplaceFirst(line, CreateSpace)
    ELSE ReplaceFirst(line, AlterSpace)

\* for line in lines: modified_lines of the lines from the i-th on, `replaced` as given
RECURSIVE ModifiedLines(_, _, _)
ModifiedLines(lines, i, replaced) ==
    IF i > Len(lines) THEN <<>>
    ELSE IF ~replaced /\ StartsStatement(StripUpper(lines[i]))
         THEN <<ModifiedLine(lines[i], StripUpper(lines[i]))>> \o ModifiedLines(lines, i + 1, TRUE)
    ELSE <<lines[i]>> \o ModifiedLines(lines, i + 1, replaced)

\* modified_sql = '\n'.join(modified_lines)
ModifiedSql(sql_content) == JoinLines(ModifiedLines(SplitLines(sql_content), 1, FALSE))

\* The types for which import_schema_objects rewrites the file of an existing object
\* ('views', 'procedures', 'functions'), under the names OBJECT_QUERIES gives them
CreateOrAlterTypes == {"Views", "StoredProcedures", "Functions"}

\* How many of AllUpdateTexts are rewritten
NumUpdateTexts == 10

\* Desired definitions: with the header first, with CREATE OR ALTER, in lower case,
\* after a byte order mark, after a comment line, after a blank line and indented,
\* without statement header, with a keyword that only begins like a kind, with an
\* ALTER header, with two headers, and of a table.
AllUpdateTexts ==
    << <<"C", "R", "E", "A", "T", "E", " ", "V", "I", "E", "W", " ", "V", " ", "A", "S", " ", "S", "E", "L", "E", "C", "T", " ", "a">>,
       <<"C", "R", "E", "A", "T", "E", " ", "O", "R", " ", "A", "L", "T", "E", "R", " ", "V", "I", "E", "W", " ", "V", " ", "A", "S", " ", "S", "E", "L", "E", "C", "T", " ", "a">>,
       <<"c", "r", "e", "a", "t", "e", " ", "v", "i", "e", "w", " ", "V", " ", "a", "s", " ", "s", "e", "l", "e", "c", "t", " ", "a">>,
       <<BomChar>> \o <<"C", "R", "E", "A", "T", "E", " ", "V", "I", "E", "W", " ", "V", " ", "A", "S", " ", "S", "E", "L", "E", "C", "T", " ", "a">>,
       <<"-", "-", " ", "c", "\n", "C", "R", "E", "A", "T", "E", " ", "P", "R", "O", "C", "E", "D", "U", "R", "E", " ", "P", " ", "A", "S", " ", "S", "E", "L", "E", "C", "T", " ", "a">>,
       <<"\n", " ", " ", "C", "R", "E", "A", "T", "E", " ", " ", "F", "U", "N", "C", "T", "I", "O", "N", " ", "F", "(", ")", " ", "A", "S", " ", "x">>,
       <<"S", "E", "L", "E", "C", "T", " ", "a">>,
       <<"C", "R", "E", "A", "T", "E", " ", "V", "I", "E", "W", "S", " ", "V">>,
       <<"A", "L", "T", "E", "R", " ", "V", "I", "E", "W", " ", "V", " ", "A", "S", " ", "S", "E", "L", "E", "C", "T", " ", "a">>,
       <<"C", "R", "E", "A", "T", "E", " ", "T", "R", "I", "G", "G", "E", "R", " ", "R", " ", "O", "N", " ", "T", " ", "A", "S", " ", "x", "\n", "C", "R", "E", "A", "T", "E", " ", "V", "I", "E", "W", " ", "V", " ", "A", "S", " ", "y">>,
       <<"C", "R", "E", "A", "T", "E", " ", "T", "A", "B", "L", "E", " ", "T", " ", "(", "a", " ", "i", "n", "t", ")">> >>

UpdateTexts == {AllUpdateTexts[i] : i \in 1..NumUpdateTexts}

\* A desired definition of an object of some type that exists in the database
InitUpdate ==
    /\ NewAnalyzer
    /\ db = NoObjects
    /\ files = NoObjects
    /\ NoPlan
    /\ NoDiff
    /\ NoRest
    /\ update_type \in ObjectTypes
    /\ update_def \in UpdateTexts
    /\ update_sql = <<"pending">>
    /\ modified_sql = <<"pending">>

\* generate_migration: _definition_for_update(obj_type, file_def)
migration_update ==
    /\ update_sql = <<"pending">>
    /\ update_sql' = _definition_for_update(update_type, update_def)
    /\ UNCHANGED <<update_type, update_def, modified_sql, graphVars, migVars, diffVars, restVars>>

\* import_schema_objects: `if exists and obj_type in ['views', 'procedures',
\* 'functions']`, the file is rewritten line by line
import_update ==
    /\ modified_sql = <<"pending">>
    /\ update_type \in CreateOrAlterTypes
    /\ modified_sql' = ModifiedSql(update_def)
    /\ UNCHANGED <<update_type, update_def, update_sql, graphVars, migVars, diffVars, restVars>>

NextUpdate == migration_update \/ import_update

SpecUpdate == InitUpdate /\ [][NextUpdate]_vars

\* ------------------------------------------------------------------------
\* DependencyAnalyzer.get_import_order
\* ------------------------------------------------------------------------
\* The most dependency names the files of one call mention.
MaxFound == 2

\* The keys of load_exported_files' dict, in the order of its literal.
ImportTypes == <<"tables", "views">>

\* The schema.object names of the files in a folder.
ImportNames == {"dbo.T", "dbo.V"}

\* One entry of load_exported_files: f"{schema}.{name}" and the path of its file.
LoadedObject(obj_type, obj_name) == [name |-> obj_name, file |-> <<obj_type, obj_name>>]

\* The files a call can be about.
ImportFiles == Range(ImportTypes) \X ImportNames

\* load_exported_files: the *.sql files of each folder, in the order glob lists them.
LoadedObjects ==
    {[t \in Range(ImportTypes) |-> [i \in DOMAIN o[t] |-> LoadedObject(t, o[t][i])]] :
        o \in [Range(ImportTypes) -> UNION {NameOrderings[S] : S \in SUBSET ImportNames}]}

\* The files of the objects handed over.
FilesOf(objs) == UNION {{objs[t][i].file : i \in DOMAIN objs[t]} : t \in DOMAIN objs}

\* What analyze_sql_dependencies can return for the files of the objects.
FoundIn(objs) ==
    {[f \in ImportFiles |-> {n \in Names : <<f, n>> \in E}] :
        E \in {D \in SUBSET (FilesOf(objs) \X Names) : Cardinality(D) <= MaxFound}}

\* for obj in obj_list: self.add_object(obj_name, obj_type)
RECURSIVE AddObjects(_, _, _)
AddObjects(ot, obj_list, obj_type) ==
    IF obj_list = <<>> THEN ot
    ELSE AddObjects(DictSet(ot, Head(obj_list).name, obj_type), Tail(obj_list), obj_type)

\* for obj_type, obj_list in objects.items(): the first loop of get_import_order
RECURSIVE AddAllObjects(_, _, _)
AddAllObjects(ot, objs, types) ==
    IF types = <<>> THEN ot
    ELSE AddAllObjects(AddObjects(ot, objs[Head(types)], Head(types)), objs, Tail(types))

\* self.dependencies after the second loop: add_dependency drops dep == obj_name
FoundDependencies(objs, fnd) ==
    [n \in Names |-> UNION {fnd[f] \ {n} : f \in {g \in FilesOf(objs) : g[2] = n}}]

\* self.dependents after the second loop, as sets
FoundDependents(deps) == [n \in Names |-> {m \in Names : n \in deps[m]}]

\* self.object_types[obj_name]
TypeOf(ot, obj_name) == ot[CHOOSE i \in DOMAIN ot : ot[i][1] = obj_name][2]

\* for obj in objects[obj_type]: the first one of that name, with break
FirstNamed(obj_list, obj_name) ==
    IF \E i \in DOMAIN obj_list : obj_list[i].name = obj_name
    THEN LET i == CHOOSE j \in DOMAIN obj_list :
                      /\ obj_list[j].name = obj_name
                      /\ \A h \in 1..(j - 1) : obj_list[h].name # obj_name
         IN <<obj_list[i]>>
    ELSE <<>>

\* Convert back to (type, obj) tuples
RECURSIVE TypedObjects(_, _, _)
TypedObjects(ordered_objects, ot, objs) ==
    IF ordered_objects = <<>> THEN <<>>
    ELSE LET t == TypeOf(ot, Head(ordered_objects))
             o == FirstNamed(objs[t], Head(ordered_objects))
         IN (IF o = <<>> THEN <<>> ELSE <<<<t, o[1]>>>>)
            \o TypedObjects(Tail(ordered_objects), ot, objs)

\* A fresh analyzer and the files of an export directory.
InitOrder ==
    /\ NewAnalyzer
    /\ db = NoObjects
    /\ files = NoObjects
    /\ NoPlan
    /\ NoBesideOrder
    /\ objects \in LoadedObjects
    /\ found \in FoundIn(objects)
    /\ import_order = <<"pending">>

\* get_import_order(objects) on the fresh analyzer of import_schema_objects: each set
\* of dependents iterates in some order, and so does the set of leftover objects.
get_import_order ==
    /\ import_order = <<"pending">>
    /\ \E ot \in {AddAllObjects(<<>>, objects, ImportTypes)},
          deps \in {FoundDependencies(objects, found)},
          sorder \in [Names -> NameOrderings[ImportNames]] :
        \E k \in {Kahn(ot, deps, [n \in Names |-> Restrict(sorder[n], FoundDependents(deps)[n])])} :
          \E horder \in NameOrderings[k.remaining] :
            \E ordered_objects \in {Extend(k.result, k.remaining, horder)} :
                /\ object_types' = ot
                /\ dependencies' = deps
                /\ dependents' = k.dependents
                /\ result' = ordered_objects
                /\ warned' = k.remaining
                /\ iters' = k.iters
                /\ sorted' = TRUE
                /\ repeated' = FALSE
                /\ import_order' = TypedObjects(ordered_objects, ot, objects)
    /\ UNCHANGED <<objects, found, migVars, textVars, otherOrder>>

NextOrder == get_import_order

SpecOrder == InitOrder /\ [][NextOrder]_vars

\* ------------------------------------------------------------------------
\* AzureSQLImporter.run_import
\* ------------------------------------------------------------------------
\* The most objects in an import order.
MaxImported == 2

\* The most batches in a file, and the most statements generate_alter_statements returns.
MaxBatches == 2

\* The types of the objects of an import
ImportedTypes == {"tables", "views", "triggers"}

\* One object of the import order: its type, `exists` (object_key in
\* existing_objects[obj_type]) and whether compare_schemas finds differences.
PlannedObjects ==
    {[obj_type |-> t, exists |-> e, differs |-> d] :
        t \in ImportedTypes, e \in BOOLEAN, d \in BOOLEAN} \
    {[obj_type |-> t, exists |-> FALSE, differs |-> FALSE] : t \in ImportedTypes}

\* The import orders of at most MaxImported objects
ImportPlans == UNION {[1..n -> PlannedObjects] : n \in 0..MaxImported}

\* What the user can type at input(): a yes, a no, nothing, anything else
Responses == {"y", "n", "", "maybe"}

\* A connection with its transaction and the log of the calls made on it
Connection(p, c, a) == [pending |-> p, committed |-> c, attempts |-> a]

\* cursor.execute(batch) for the batches `from..to` of attempt number a
Executes(conn, a, from, to) ==
    [conn EXCEPT !.pending = @ \cup {<<a, b>> : b \in from..to}]

\* Mutant of Rollback: the statements of the failed file stay in the transaction.
RollbackKeeps(conn) == conn

\* cursor.rollback()
Rollback(conn) == [conn EXCEPT !.pending = {}]

\* cursor.commit()
Commit(conn) == [conn EXCEPT !.pending = {}, !.committed = @ \cup conn.pending]

\* The call is logged: the object, the function, the number of batches, the one that failed
Attempt(conn, i, kind, n, f) ==
    [conn EXCEPT !.attempts = Append(@, [obj |-> i, kind |-> kind, batches |-> n, failed |-> f])]

\* execute_sql_file on a file of n batches of which batch f raises (none when f = 0)
execute_sql_file(conn, i, n, f) ==
    IF f # 0
    THEN [conn |-> Rollback(Executes(Attempt(conn, i, "file", n, f), Len(conn.attempts) + 1, 1, f - 1)),
          success |-> FALSE]
    ELSE [conn |-> Commit(Executes(Attempt(conn, i, "file", n, f), Len(conn.attempts) + 1, 1, n)),
          success |-> TRUE]

\* execute_alter_statements on n statements of which statement f raises an error that
\* ends the call (none when f = 0) and the statements of `missing` raise a "does not
\* exist" error, which is skipped
execute_alter_statements(conn, i, n, f, missing) ==
    IF n = 0 THEN [conn |-> conn, success |-> TRUE]
    ELSE IF f # 0
    THEN [conn |-> Rollback([Attempt(conn, i, "alter", n, f) EXCEPT
                      !.pending = @ \cup {<<Len(conn.attempts) + 1, b>> : b \in (1..(f - 1)) \ missing}]),
          success |-> FALSE]
    ELSE [conn |-> Commit([Attempt(conn, i, "alter", n, f) EXCEPT
                      !.pending = @ \cup {<<Len(conn.attempts) + 1, b>> : b \in (1..n) \ missing}]),
          success |-> TRUE]

\* The outcomes of "Execute the import" for object i of the import order
ExecuteTheImport(conn, o, i) ==
    IF o.exists /\ o.obj_type = "tables"
    THEN {execute_alter_statements(conn, i, n, f, missing) :
            <<n, f, missing>> \in {t \in (0..MaxBatches) \X (0..MaxBatches) \X SUBSET (1..MaxBatches) :
                                       /\ t[2] <= t[1]
                                       /\ t[3] \subseteq 1..(IF t[2] = 0 THEN t[1] ELSE t[2] - 1)}}
    ELSE IF o.exists /\ o.obj_type = "views"
    THEN UNION {{execute_sql_file(conn, i, n, 0)} \cup
                UNION {{execute_sql_file(execute_sql_file(conn, i, n, f).conn, i, n, f2) :
                            f2 \in 0..n} : f \in 1..n} :
                    n \in 1..MaxBatches}
    ELSE {execute_sql_file(conn, i, n, f) :
            <<n, f>> \in {t \in (1..MaxBatches) \X (0..MaxBatches) : t[2] <= t[1]}}

\* The importer as main leaves it, and the export directory and database it meets.
InitImport ==
    /\ NewAnalyzer
    /\ db = NoObjects
    /\ files = NoObjects
    /\ NoPlan
    /\ NoBesideImport
    /\ auto_confirm \in BOOLEAN
    /\ alter_existing \in BOOLEAN
    /\ import_plan \in ImportPlans
    /\ pc = "start"
    /\ asked = ""
    /\ obj_index = 0
    /\ outcomes = [i \in DOMAIN import_plan |-> "pending"]
    /\ attempts = <<>>
    /\ pending = {}
    /\ committed = {}

\* The for loop of import_schema_objects moves on; after the last object
\* run_import returns True (import_data is off).
NextObject(i) ==
    /\ obj_index' = i + 1
    /\ pc' = IF i + 1 > Len(import_plan) THEN "completed" ELSE "importing"
    /\ asked' = ""

\* continue: the object is left as it is
Skipped(i, why) ==
    /\ outcomes' = [outcomes EXCEPT ![i] = why]
    /\ NextObject(i)
    /\ UNCHANGED <<attempts, pending, committed>>

\* "Execute the import" of object i, whatever its result
Imports(i) ==
    \E r \in ExecuteTheImport(Connection(pending, committed, attempts), import_plan[i], i) :
        /\ attempts' = r.conn.attempts
        /\ pending' = r.conn.pending
        /\ committed' = r.conn.committed
        /\ outcomes' = [outcomes EXCEPT ![i] = IF r.success THEN "imported" ELSE "failed"]
        /\ NextObject(i)

\* ask_confirmation(message) up to input(): with auto_confirm it returns `default`
\* (False) at once, otherwise it waits for the user.
Confirmation(message, yes, no) ==
    IF auto_confirm THEN no
    ELSE /\ pc' = "asking"
         /\ asked' = message
         /\ UNCHANGED <<obj_index, outcomes, attempts, pending, committed>>

\* return False from run_import
Returns(how) ==
    /\ pc' = how
    /\ asked' = ""
    /\ UNCHANGED <<obj_index, outcomes, attempts, pending, committed>>

\* import_schema_objects is entered
Proceeds ==
    /\ pc' = IF import_plan = <<>> THEN "completed" ELSE "importing"
    /\ obj_index' = 1
    /\ asked' = ""
    /\ UNCHANGED <<outcomes, attempts, pending, committed>>

\* run_import up to the confirmation 'Proceed with import?'
run_import ==
    /\ pc = "start"
    /\ \E connected \in BOOLEAN :
        IF ~connected \/ import_plan = <<>> THEN Returns("failed")
        ELSE Confirmation("proceed", Proceeds, Returns("cancelled"))
    /\ UNCHANGED <<auto_confirm, alter_existing, import_plan, besideImport>>

\* One iteration of the loop of import_schema_objects, up to its confirmation
import_object ==
    /\ pc = "importing"
    /\ \E i \in {obj_index}, o \in {import_plan[obj_index]} :
        IF o.exists /\ alter_existing
        THEN IF ~o.differs THEN Skipped(i, "identical")
             ELSE Confirmation("object", Imports(i), Skipped(i, "declined"))
        ELSE IF o.exists /\ ~alter_existing THEN Skipped(i, "existing")
        ELSE Imports(i)
    /\ UNCHANGED <<auto_confirm, alter_existing, import_plan, besideImport>>

\* input() returns in ask_confirmation: the answer is taken, or asked for again
answer ==
    /\ pc = "asking"
    /\ \E response \in Responses :
        IF response \in {"y", "yes"}
        THEN IF asked = "proceed" THEN Proceeds ELSE Imports(obj_index)
        ELSE IF response \in {"n", "no", ""}
        THEN IF asked = "proceed" THEN Returns("cancelled")
             ELSE Skipped(obj_index, "declined")
        ELSE UNCHANGED importVars
    /\ UNCHANGED <<auto_confirm, alter_existing, import_plan, besideImport>>

NextImport == run_import \/ import_object \/ answer

SpecImport == InitImport /\ [][NextImport]_vars

\* ------------------------------------------------------------------------
\* azure_sql_copy: execute_with_retry
\* ------------------------------------------------------------------------
\* The largest value of --retries
MaxRetries == 2

TRANSIENT_ERROR_CODES == {4060, 40197, 40501, 49918, 49919, 49920, 10928, 10929}

\* 40501: the service is busy. 2627: violation of a PRIMARY KEY constraint.
ErrorCodes == {40501, 2627}

\* What an invocation of the operation can raise: a pyodbc.Error or another exception,
\* with an int as args[1] or not, and with a number of 4 or 5 digits in parentheses in
\* its text or not. An optional number is <<n>>, or <<>> for None.
Optional(S) == {<<>>} \cup {<<n>> : n \in S}

Errors == [pyodbc : BOOLEAN, number : Optional(ErrorCodes), bracketed : Optional(ErrorCodes)]

\* What an invocation of the operation does: it returns (<<>>) or raises e (<<e>>)
Outcomes == Optional(Errors)

extract_sqlstate_or_number(e) ==
    IF e.number # <<>> THEN e.number
    ELSE IF e.bracketed # <<>> THEN e.bracketed
    ELSE <<>>

\* Mutant of Retried: every error is retried while attempts are left.
RetriedAlways(e, n, r) == n <= r

\* attempt <= retries and (code in TRANSIENT_ERROR_CODES or code is None)
Retried(e, n, r) ==
    /\ n <= r
    /\ \E code \in {extract_sqlstate_or_number(e)} :
           code = <<>> \/ code[1] \in TRANSIENT_ERROR_CODES

\* A call with some retries, --retries -1 included
InitRetry ==
    /\ NewAnalyzer
    /\ db = NoObjects
    /\ files = NoObjects
    /\ NoPlan
    /\ NoBesideRetry
    /\ retries \in -1..MaxRetries
    /\ attempt = 0
    /\ calls = <<>>
    /\ retry_pc = "running"

\* One turn of the loop of execute_with_retry: the operation is invoked; it returns,
\* or raises an error that is retried or raised again.
execute_with_retry ==
    /\ retry_pc = "running"
    /\ \E outcome \in Outcomes :
        /\ calls' = Append(calls, outcome)
        /\ IF outcome = <<>>
           THEN retry_pc' = "returned" /\ attempt' = attempt
           ELSE IF ~outcome[1].pyodbc
           THEN retry_pc' = "raised" /\ attempt' = attempt
           ELSE /\ attempt' = attempt + 1
                /\ retry_pc' = IF Retried(outcome[1], attempt + 1, retries) THEN "running" ELSE "raised"
    /\ UNCHANGED <<retries, besideRetry>>

NextRetry == execute_with_retry

SpecRetry == InitRetry /\ [][NextRetry]_vars

\* ------------------------------------------------------------------------
\* azure_sql_copy: copy_table
\* ------------------------------------------------------------------------
\* The most rows in the source table
MaxRows == 2

\* The largest value of --batch-size
MaxBatchSize == 2

\* A query on the cursor of the source
OnSource(what) == [on |-> "source", stmt |-> what, retry |-> FALSE, rows |-> 0]

\* A statement on the cursor of the target: through execute_with_retry or not,
\* executemany of some rows or not
OnTarget(stmt, retry, rows) == [on |-> "target", stmt |-> stmt, retry |-> retry, rows |-> rows]

Min(a, b) == IF a < b THEN a ELSE b

\* for offset in range(0, total_rows, batch_size): fetch_batch, executemany
RECURSIVE CopyBatches(_, _, _)
CopyBatches(offset, rows, size) ==
    IF offset >= rows THEN <<>>
    ELSE <<OnSource("fetch_batch"), OnTarget("INSERT INTO", FALSE, Min(size, rows - offset))>>
         \o CopyBatches(offset + size, rows, size)

\* identity_mode == 'on' or (identity_mode == 'auto' and identity_exists)
IdentityOn(mode, identity_exists) == mode = "on" \/ (mode = "auto" /\ identity_exists)

\* The queries and statements of copy_table when nothing fails, in order
CopySteps(dry, trunc, identity_on, rows, size) ==
    <<OnSource("get_columns"), OnSource("get_row_count")>>
    \o (IF dry THEN <<>>
        ELSE <<OnTarget("BEGIN TRANSACTION", TRUE, 0)>>
             \o (IF trunc /\ rows > 0 THEN <<OnTarget("TRUNCATE TABLE", TRUE, 0)>> ELSE <<>>)
             \o <<OnSource("has_identity_column")>>
             \o (IF identity_on THEN <<OnTarget("SET IDENTITY_INSERT ON", TRUE, 0)>> ELSE <<>>)
             \o CopyBatches(0, rows, size)
             \o (IF identity_on THEN <<OnTarget("SET IDENTITY_INSERT OFF", TRUE, 0)>> ELSE <<>>)
             \o <<OnTarget("COMMIT TRANSACTION", FALSE, 0)>>)

\* The same statement n times
RECURSIVE Repeated(_, _)
Repeated(stmt, n) == IF n <= 0 THEN <<>> ELSE <<stmt>> \o Repeated(stmt, n - 1)

\* What a step that succeeds executes on the target: the statement, after `again`
\* transient errors when it goes through execute_with_retry; an executemany that raised
\* is followed by the execution of each row.
Succeeds(step, again, fallback) ==
    IF step.on = "source" THEN <<>>
    ELSE IF step.retry THEN Repeated(step.stmt, again + 1)
    ELSE IF step.rows > 0 /\ fallback THEN <<step.stmt>> \o Repeated("INSERT ROW", step.rows)
    ELSE <<step.stmt>>

\* What a step that raises has executed on the target: the statement, `again` times more
\* when it goes through execute_with_retry; after an executemany that raised, the rows
\* up to the one that raised.
Raises(step, again, row) ==
    IF step.on = "source" THEN <<>>
    ELSE IF step.retry THEN Repeated(step.stmt, again + 1)
    ELSE IF step.rows > 0 THEN <<step.stmt>> \o Repeated("INSERT ROW", Min(row, step.rows))
    ELSE <<step.stmt>>

\* The statements on the target of the steps from..to, which all succeed; the first
\* statement that goes through execute_with_retry meets `again` transient errors.
RECURSIVE Succeeded(_, _, _, _, _)
Succeeded(steps, from, to, again, fallback) ==
    IF from > to THEN <<>>
    ELSE Succeeds(steps[from], again, fallback)
         \o Succeeded(steps, from + 1, to, IF steps[from].retry THEN 0 ELSE again, fallback)

\* except Exception: tgt_cur.execute("ROLLBACK TRANSACTION"), whatever it raises
Handled(log) == Append(log, "ROLLBACK TRANSACTION")

\* A table and the arguments main passes
InitCopy ==
    /\ NewAnalyzer
    /\ db = NoObjects
    /\ files = NoObjects
    /\ NoPlan
    /\ NoBesideCopy
    /\ dry_run \in BOOLEAN
    /\ truncate \in BOOLEAN
    /\ identity_mode \in {"auto", "on", "off"}
    /\ batch_size \in 1..MaxBatchSize
    /\ copy_retries \in 0..MaxRetries
    /\ total_rows \in 0..MaxRows
    /\ target_log = <<>>
    /\ copy_result = <<>>

\* copy_table: the source has columns or not and an identity column or not; step
\* `failed` raises (none when 0), a statement meets `again` transient errors, an
\* executemany that raises does so at row `row`.
copy_table ==
    /\ copy_result = <<>>
    /\ \E columns \in BOOLEAN, identity_exists \in BOOLEAN, fallback \in BOOLEAN,
          again \in 0..copy_retries, row \in 1..MaxBatchSize :
        \E steps \in {CopySteps(dry_run, truncate, IdentityOn(identity_mode, identity_exists),
                                total_rows, batch_size)} :
          \E failed \in 0..Len(steps) :
            IF ~columns /\ failed # 1
            THEN /\ target_log' = <<>>
                 /\ copy_result' = <<FALSE, "No columns found", 0>>
            ELSE IF failed # 0
            THEN /\ target_log' = Handled(Succeeded(steps, 1, failed - 1, 0, fallback)
                                          \o Raises(steps[failed], again, row))
                 /\ copy_result' = <<FALSE, "str(e)", 0>>
            ELSE /\ target_log' = Succeeded(steps, 1, Len(steps), again, fallback)
                 /\ copy_result' = <<TRUE, IF dry_run THEN "Dry-run" ELSE "OK", total_rows>>
    /\ UNCHANGED <<dry_run, truncate, identity_mode, batch_size, copy_retries, total_rows, besideCopy>>

NextCopy == copy_table

SpecCopy == InitCopy /\ [][NextCopy]_vars

\* ------------------------------------------------------------------------
\* The numbering of the migration files
\* ------------------------------------------------------------------------
\* The most files written in one history
MaxWritten == 2

\* The numbers of the update files that can be in the directory at first
PresentNumbers == {1, 2, 9998, 9999, 10000}

DigitSeq == <<"0", "1", "2", "3", "4", "5", "6", "7", "8", "9">>

\* The characters of a file name in the order of their code points
CodePoints == <<".">> \o DigitSeq \o LowerChars

CodePoint(c) == CHOOSE i \in DOMAIN CodePoints : CodePoints[i] = c

\* str(n) for n >= 0
RECURSIVE Decimal(_)
Decimal(n) == IF n < 10 THEN <<DigitSeq[n + 1]>> ELSE Decimal(n \div 10) \o <<DigitSeq[(n % 10) + 1]>>

\* f"{n:04d}": at least four digits, zeros in front
RECURSIVE ZeroPadded(_, _)
ZeroPadded(t, width) == IF Len(t) >= width THEN t ELSE ZeroPadded(<<"0">> \o t, width)

\* int(t) for a text of digits
RECURSIVE IntOf(_)
IntOf(t) ==
    IF t = <<>> THEN 0
    ELSE 10 * IntOf(SubSeq(t, 1, Len(t) - 1)) + (CodePoint(t[Len(t)]) - CodePoint("0"))

\* str.isdigit()
IsDigits(t) == t # <<>> /\ \A i \in DOMAIN t : t[i] \in DigitChars

\* f[a:b] for 0 <= a <= b
Slice(t, a, b) == SubSeq(t, a + 1, IF b < Len(t) THEN b ELSE Len(t))

\* f"update{next_num:04d}.sql"
UpdateFileName(n) ==
    <<"u", "p", "d", "a", "t", "e">> \o ZeroPadded(Decimal(n), 4) \o <<".", "s", "q", "l">>

\* a < b for two str
RECURSIVE TextLess(_, _)
TextLess(a, b) ==
    IF b = <<>> THEN FALSE
    ELSE IF a = <<>> THEN TRUE
    ELSE IF Head(a) = Head(b) THEN TextLess(Tail(a), Tail(b))
    ELSE CodePoint(Head(a)) < CodePoint(Head(b))

FileNames(dir) == {f[1] : f \in dir}

\* nums = [int(f[6:10]) for f in existing if f[6:10].isdigit()]
Nums(dir) == {IntOf(Slice(f, 6, 10)) : f \in {g \in FileNames(dir) : IsDigits(Slice(g, 6, 10))}}

\* next_num = max(nums, default=0) + 1
NextNumber(dir) ==
    1 + (CHOOSE n \in Nums(dir) \cup {0} : \A m \in Nums(dir) : m <= n)

\* sorted(glob.glob('sql/migrations/update*.sql'))[-1]
LastSorted(dir) == CHOOSE f \in FileNames(dir) : \A g \in FileNames(dir) : g = f \/ TextLess(g, f)

\* A migrations directory with some update files
InitNumber ==
    /\ NewAnalyzer
    /\ db = NoObjects
    /\ files = NoObjects
    /\ NoPlan
    /\ NoBesideNumber
    /\ \E present \in SUBSET PresentNumbers : directory = {<<UpdateFileName(n), 0>> : n \in present}
    /\ runs = 0
    /\ written = <<>>
    /\ overwrote = FALSE
    /\ latest = <<>>

\* generate_migration (and scripts/mig.py) with a migration to write: the file of the
\* next number is opened for writing
write_migration ==
    /\ runs < MaxWritten
    /\ \E filename \in {UpdateFileName(NextNumber(directory))} :
        /\ directory' = {f \in directory : f[1] # filename} \cup {<<filename, runs + 1>>}
        /\ written' = filename
        /\ overwrote' = (overwrote \/ filename \in FileNames(directory))
    /\ runs' = runs + 1
    /\ latest' = <<>>
    /\ UNCHANGED besideNumber

\* apply_latest_migration.main up to path = paths[-1]
select_latest ==
    /\ directory # {}
    /\ latest' = LastSorted(directory)
    /\ UNCHANGED <<directory, runs, written, overwrote, besideNumber>>

NextNumberSpec == write_migration \/ select_latest

SpecNumber == InitNumber /\ [][NextNumberSpec]_vars

\* ------------------------------------------------------------------------
\* azure_sql_web: operations in background threads
\* ------------------------------------------------------------------------
\* The most operations started
MaxOperations == 2

\* The seconds that pass
MaxClock == 1

\* The prefixes of the operation ids of api_export and api_copy
OperationKinds == {"export", "copy"}

\* f"export_{int(time.time())}"
OperationId(kind, now) == <<kind, now>>

OperationIds == OperationKinds \X (0..MaxClock)

\* {'status': 'running', 'progress': 0, 'message': ...}
Running == [status |-> "running", progress |-> 0]

\* {'status': 'error', 'message': ...}: a dict without the key progress
Failed == [status |-> "error", progress |-> -1]

\* operation_status[operation_id]['progress'] = 50, in place
Progressed(entry) == [entry EXCEPT !.progress = 50]

\* ['progress'] = 100; ['status'] = 'completed', in place
Completed(entry) == [entry EXCEPT !.progress = 100, !.status = "completed"]

\* The application has started: operation_status = {}
InitWeb ==
    /\ NewAnalyzer
    /\ db = NoObjects
    /\ files = NoObjects
    /\ NoPlan
    /\ NoBesideWeb
    /\ clock = 0
    /\ operation_status = [id \in OperationIds |-> <<>>]
    /\ threads = <<>>
    /\ answers = {}
    /\ served = {}

\* A second passes.
tick ==
    /\ clock < MaxClock
    /\ clock' = clock + 1
    /\ UNCHANGED <<operation_status, threads, answers, served, besideWeb>>

\* A start endpoint with a valid upload: the id is made from the clock, the thread is
\* started, the id is returned.
Starts(kind) ==
    /\ Len(threads) < MaxOperations
    /\ threads' = Append(threads, [id |-> OperationId(kind, clock), pc |-> "started"])
    /\ UNCHANGED <<clock, operation_status, answers, served, besideWeb>>

api_export == Starts("export")

api_copy == Starts("copy")

\* The thread at position k takes the step from..to and leaves the entry of its id as `entry`
Steps(k, from, to, entry) ==
    /\ threads[k].pc \in from
    /\ threads' = [threads EXCEPT ![k].pc = to]
    /\ operation_status' = [operation_status EXCEPT ![threads[k].id] = <<entry>>]
    /\ UNCHANGED <<clock, answers, served, besideWeb>>

\* run_*_operation: operation_status[operation_id] = {'status': 'running', ...}
operation_begins ==
    \E k \in DOMAIN threads : Steps(k, {"started"}, "running", Running)

\* run_*_operation: the updates of progress and message on the way
operation_progresses ==
    \E k \in DOMAIN threads :
        Steps(k, {"running"}, "working", Progressed(operation_status[threads[k].id][1]))

\* run_*_operation: progress 100, status 'completed'
operation_completes ==
    \E k \in DOMAIN threads :
        Steps(k, {"working"}, "completed", Completed(operation_status[threads[k].id][1]))

\* run_*_operation: return after an error status, or the except branch
operation_fails ==
    \E k \in DOMAIN threads : Steps(k, {"running", "working"}, "error", Failed)

\* api_status for an id that a start endpoint has returned
api_status ==
    /\ \E k \in DOMAIN threads :
        answers' = answers \cup
            {[operation_id |-> threads[k].id,
              answer |-> IF operation_status[threads[k].id] = <<>>
                         THEN "Operation not found" ELSE "status"]}
    /\ UNCHANGED <<clock, operation_status, threads, served, besideWeb>>

\* api_download by the client of the export at position k, when it is served
api_download ==
    /\ \E k \in DOMAIN threads :
        /\ threads[k].id[1] = "export"
        /\ operation_status[threads[k].id] # <<>>
        /\ operation_status[threads[k].id][1].status = "completed"
        /\ served' = served \cup {k}
    /\ UNCHANGED <<clock, operation_status, threads, answers, besideWeb>>

NextWeb ==
    \/ tick
    \/ api_export
    \/ api_copy
    \/ operation_begins
    \/ operation_progresses
    \/ operation_completes
    \/ operation_fails
    \/ api_status
    \/ api_download

SpecWeb == InitWeb /\ [][NextWeb]_vars

\* ------------------------------------------------------------------------
\* pyazs/sync.py: sync_schema_objects
\* ------------------------------------------------------------------------
\* pyazs/sync.py: the keys of its own OBJECT_QUERIES, in the order the dict lists them
SYNC_OBJECT_QUERIES == <<"Tables", "Views", "Stored Procedures", "Functions", "Triggers">>

\* The catalog view each query of sync.py reads is that of the query of common.py at
\* the same position.
QueriedType(i) == OBJECT_QUERIES[i]

\* obj_type.replace(' ', '')
SyncFolder(obj_type) == IF obj_type = "Stored Procedures" THEN "StoredProcedures" ELSE obj_type

\* folder_name = obj_type if obj_type != 'StoredProcedures' else 'Stored Procedures'
MigrateFolder(obj_type) == IF obj_type = "StoredProcedures" THEN "Stored Procedures" ELSE obj_type

\* The folders either command looks at
Folders ==
    {SyncFolder(SYNC_OBJECT_QUERIES[i]) : i \in DOMAIN SYNC_OBJECT_QUERIES}
    \cup {MigrateFolder(t) : t \in ObjectTypes}

\* The schema directory as generate_migration reads it: get_file_objects(folder) per type
FileObjects(dir) == [t \in ObjectTypes |-> dir[MigrateFolder(t)]]

\* sync.get_db_objects: {row.name: row.definition for row in rows if row.definition}
RECURSIVE Defined(_)
Defined(rows) ==
    IF rows = <<>> THEN <<>>
    ELSE IF Head(rows).definition = None THEN Defined(Tail(rows))
    ELSE <<Head(rows)>> \o Defined(Tail(rows))

\* with open(path, 'w') as f: f.write(definition), when the file is missing or differs
Written(local, row) ==
    IF \E i \in DOMAIN local : local[i].name = row.name
    THEN [i \in DOMAIN local |-> IF local[i].name = row.name THEN row ELSE local[i]]
    ELSE Append(local, row)

\* for name, definition in db_objs.items(): Create or update
RECURSIVE CreateOrUpdate(_, _)
CreateOrUpdate(local, db_objs) ==
    IF db_objs = <<>> THEN local
    ELSE CreateOrUpdate(Written(local, Head(db_objs)), Tail(db_objs))

\* for name, path in local_objs.items(): os.remove(path) if name not in db_objs
RECURSIVE RemoveNonExisting(_, _)
RemoveNonExisting(local, db_objs) ==
    IF local = <<>> THEN <<>>
    ELSE IF \E i \in DOMAIN db_objs : db_objs[i].name = Head(local).name
    THEN <<Head(local)>> \o RemoveNonExisting(Tail(local), db_objs)
    ELSE RemoveNonExisting(Tail(local), db_objs)

\* One iteration of `for obj_type in OBJECT_QUERIES` of sync_schema_objects
SyncedFolder(local, db_objs) == CreateOrUpdate(RemoveNonExisting(local, db_objs), db_objs)

\* for obj_type in OBJECT_QUERIES: the first i types
RECURSIVE SyncedDir(_, _, _)
SyncedDir(dir, dbc, i) ==
    IF i = 0 THEN dir
    ELSE [SyncedDir(dir, dbc, i - 1) EXCEPT ![SyncFolder(SYNC_OBJECT_QUERIES[i])] =
              SyncedFolder(dir[SyncFolder(SYNC_OBJECT_QUERIES[i])], Defined(dbc[QueriedType(i)]))]

\* The schema directory that holds the files of a catalog in the folders generate_migration reads
DirOf(filec) ==
    [f \in Folders |-> IF \E t \in ObjectTypes : MigrateFolder(t) = f
                       THEN filec[CHOOSE t \in ObjectTypes : MigrateFolder(t) = f]
                       ELSE <<>>]

\* A database and a schema directory of at most MaxObjects objects together
InitSync ==
    /\ NewAnalyzer
    /\ db \in Catalogs(DbRows, Len(OBJECT_QUERIES), MaxObjects)
    /\ files \in Catalogs(FileRows, Len(OBJECT_QUERIES),
                          MaxObjects - NumObjects(db, Len(OBJECT_QUERIES)))
    /\ NoPlan
    /\ NoBesideSync
    /\ schema_dir = DirOf(files)
    /\ synced = FALSE

\* sync_schema_objects(config, sql_schema_dir, schema_name)
sync_schema_objects ==
    /\ phase = "start"
    /\ \E dir \in {SyncedDir(schema_dir, db, Len(SYNC_OBJECT_QUERIES))} :
        /\ schema_dir' = dir
        /\ files' = FileObjects(dir)
    /\ synced' = TRUE
    /\ UNCHANGED <<db, planVars, migrations, phase, graphVars, textVars, otherSync>>

\* azs sync, then azs migrate on the same directory
NextSync == sync_schema_objects \/ (synced /\ generate_migration)

SpecSync == InitSync /\ [][NextSync]_vars

\* ------------------------------------------------------------------------
\* Claims about the dependency graph (checked under SpecGraph)
\* ------------------------------------------------------------------------
Registered == Keys(object_types)

\* Everything x depends on, directly or through other objects.
RECURSIVE DepClosure(_)
DepClosure(S) ==
    LET T == S \cup UNION {dependencies[y] : y \in S}
    IN IF T = S THEN S ELSE DepClosure(T)

Reach(x) == DepClosure(dependencies[x])

OnCycle(x) == x \in Reach(x)

\* C1 (as stated): after topological_sort, for every recorded edge "a depends on b"
\* with a and b both registered, b stands before a in the returned list.
C1_TopologicalCorrectness ==
    sorted => \A a, b \in Registered :
                  b \in dependencies[a] => Pos(result, b) < Pos(result, a)

\* C1 (amended): the same, except for edges whose two ends are both among the
\* objects left over when the queue emptied (those named in the warning).
C1_CorrectOutsideLeftover ==
    sorted => \A a, b \in Registered :
                  (b \in dependencies[a] /\ ~(a \in warned /\ b \in warned))
                      => Pos(result, b) < Pos(result, a)

\* C1 witness: a sorted graph in which a leftover object depends on an ordered one.
C1_Witness ==
    /\ sorted
    /\ \E a \in warned, b \in Registered \ warned : b \in dependencies[a]

\* The registered objects are exactly three and depend on each other in a ring.
ThreeCycle ==
    \E a, b, c \in Names :
        /\ a # b /\ b # c /\ a # c
        /\ Registered = {a, b, c}
        /\ dependencies[a] = {b} /\ dependencies[b] = {c} /\ dependencies[c] = {a}

\* C2: topological_sort ends after at most one loop iteration per registered object
\* and returns every registered object exactly once and nothing else; every
\* registered member of a cycle is named in the warning, and on the ring
\* A->B->C->A the warning names exactly the three objects.
C2_CycleTolerance ==
    sorted =>
        /\ Len(result) = Len(object_types)
        /\ Range(result) = Registered
        /\ iters <= Len(object_types)
        /\ \A x \in Registered : OnCycle(x) => x \in warned
        /\ ThreeCycle => warned = Registered

\* C2 witness: the ring of three objects has been sorted.
C2_Witness == sorted /\ ThreeCycle /\ Len(result) = 3

C4_CycleOnlyWhenCyclic ==
    sorted => \A x \in warned : \E y \in Reach(x) \cup {x} : OnCycle(y)

\* ------------------------------------------------------------------------
\* Claims about the migration plan (checked under SpecMig)
\* ------------------------------------------------------------------------
\* The plan variables are those of generate_migration run on the present catalogs.
Planned == phase \in {"planned", "replanned"}

\* No Created, Updated or Dropped entry
NoEntries ==
    \A t \in ObjectTypes : created[t] = <<>> /\ updated[t] = <<>> /\ dropped[t] = <<>>

\* No entry and no migration emitted
PlanEmpty == NoEntries /\ migration_sql = <<>>

\* The identities (lower-cased names) of a list of objects
Identities(objs) == {Lower(objs[i].name) : i \in DOMAIN objs}

\* The two catalogs list the same identities under each type.
SameIdentities == \A t \in ObjectTypes : Identities(db[t]) = Identities(files[t])

\* Desired (files) and actual (database) catalogs are identical after normalization:
\* the same identities, and for each the normalized texts are equal.
IdenticalAfterNormalization ==
    /\ SameIdentities
    /\ \A t \in ObjectTypes : \A i \in DOMAIN db[t], j \in DOMAIN files[t] :
          Lower(db[t][i].name) = Lower(files[t][j].name) =>
              /\ db[t][i].definition # None
              /\ _normalize_sql(db[t][i].definition) = _normalize_sql(files[t][j].definition)

IdenticalExactly ==
    /\ SameIdentities
    /\ \A t \in ObjectTypes : \A i \in DOMAIN db[t] :
          db[t][i].definition # None =>
              FileDef(files[t], db[t][i].name) = db[t][i].definition

\* Every name in the bucket carries the " (definition unavailable)" marker.
AllUnavailable(names) ==
    \A i \in DOMAIN names :
        /\ Len(names[i]) > Len(Unavailable)
        /\ SubSeq(names[i], Len(names[i]) - Len(Unavailable) + 1, Len(names[i])) = Unavailable

C6_Idempotence == phase = "replanned" => PlanEmpty

\* The names of a bucket
Bucket(names) == {names[i] : i \in DOMAIN names}

\* C7 as stated: an object of the files that the database lacks is Created; an object
\* of the database that the files lack is Dropped, with a DROP statement.
C7_VerdictDirection ==
    Planned =>
        \A t \in ObjectTypes :
            /\ \A j \in DOMAIN files[t] :
                  Lower(files[t][j].name) \notin Identities(db[t]) =>
                      files[t][j].name \in Bucket(created[t])
            /\ \A i \in DOMAIN db[t] :
                  Lower(db[t][i].name) \notin Identities(files[t]) =>
                      /\ db[t][i].name \in Bucket(dropped[t])
                      /\ \E k \in DOMAIN migration_sql :
                            migration_sql[k].sql = DropStatement(t, db[t][i].name)

\* The DDL text an entry carries: its statement without the comment line before it
\* and the "\nGO\n" after it
Ddl(e) == SubSeq(e.sql, Find(e.sql, <<"\n">>, 1, FALSE) + 1, Len(e.sql) - 4)

\* C8 as stated: the DDL of a Created entry is the desired (file) definition of the
\* object, and that of an Updated entry is it with the header rewritten.
C8_DdlFromDesired ==
    Planned =>
        \A k \in DOMAIN migration_sql :
            LET e == migration_sql[k]
                desired == FileDef(files[e.obj_type], e.name)
            IN /\ e.op = "Created" => desired # None /\ Ddl(e) = desired
               /\ e.op = "Updated" =>
                     desired # None /\ Ddl(e) = _definition_for_update(e.obj_type, desired)

TypeIndex(t) == CHOOSE i \in DOMAIN OBJECT_QUERIES : OBJECT_QUERIES[i] = t

Reads(text, name) == text # None /\ Find(text, <<"F", "R", "O", "M", " ">> \o name, 1, TRUE) # 0

\* C10 as stated: of two Dropped objects, one that reads the other is dropped first.
C10_DependentDroppedFirst ==
    Planned =>
        \A i, j \in DOMAIN migration_sql :
            /\ i # j
            /\ migration_sql[i].op = "Dropped"
            /\ migration_sql[j].op = "Dropped"
            /\ Reads(DictGet(files[migration_sql[i].obj_type], migration_sql[i].name),
                     migration_sql[j].name)
            => i < j

\* C11 as stated: of two objects with a Created or Updated entry, the one that the
\* desired (file) definition of the other reads is emitted first.
C11_ReferencedEmittedFirst ==
    Planned =>
        \A i, j \in DOMAIN migration_sql :
            /\ i # j
            /\ migration_sql[i].op \in {"Created", "Updated"}
            /\ migration_sql[j].op \in {"Created", "Updated"}
            /\ Reads(FileDef(files[migration_sql[j].obj_type], migration_sql[j].name),
                     migration_sql[i].name)
            => i < j

\* ------------------------------------------------------------------------
\* Claims about the comparison of definitions (checked under SpecDiff)
\* ------------------------------------------------------------------------
\* The two texts are scripted forms of one statement: they differ at most by the
\* header block, the SET statements and the GO separators.
SameStatement ==
    \E body \in Bodies : file_text \in Scripted(body) /\ db_text \in Scripted(body)

\* The loop body of generate_migration left the object unchanged.
MigrationUnchanged ==
    appended[1].created = <<>> /\ appended[1].updated = <<>> /\ appended[1].sql = <<>>

C13_OtherDifferencesUpdated ==
    (differences # "" /\ db_text # <<>> /\ ~SameStatement) => differences = "diff"

\* ------------------------------------------------------------------------
\* Claims about identities and edges of the dependency graph (checked under
\* SpecGraph)
\* ------------------------------------------------------------------------
\* The characters of each object name
NameText ==
    [n \in {AllNames[i] : i \in DOMAIN AllNames} |->
        CASE n = "dbo.T" -> <<"d", "b", "o", ".", "T">>
          [] n = "dbo.V" -> <<"d", "b", "o", ".", "V">>
          [] n = "DBO.t" -> <<"D", "B", "O", ".", "t">>
          [] n = "dbo.F" -> <<"d", "b", "o", ".", "F">>
          [] n = "dbo.G" -> <<"d", "b", "o", ".", "G">>]

\* The identity of an object: its (schema, name) compared without regard to case
Identity(n) == Lower(NameText[n])

\* C14: a reference that spells a registered object in another letter case is an edge
\* to that object, and the object is ordered before the one that refers to it.
C14_CaseInsensitiveEdge ==
    sorted =>
        \A a \in Keys(object_types), b \in Keys(object_types) :
            \A d \in dependencies[a] :
                (d # b /\ Identity(d) = Identity(b) /\ Identity(a) # Identity(b))
                => /\ b \in dependencies[a]
                   /\ a \notin Reach(b) => Pos(result, b) < Pos(result, a)

\* C15: no object has an edge to its own identity, in whatever letter case the
\* reference is spelled.
C15_NoSelfDependency ==
    \A x \in Names : \A d \in dependencies[x] : Identity(d) # Identity(x)

\* C16: dependents is the transpose of dependencies in every state: b is a
\* dependency of a exactly when a is a dependent of b.
C16_Transpose ==
    \A a \in Names, b \in Names : b \in dependencies[a] <=> a \in Range(dependents[b])

\* A sorted analyzer with at least two edges, one of them between registered objects
C16_Witness ==
    /\ sorted
    /\ NumEdges(dependents) >= 2
    /\ \E a \in Keys(object_types), b \in Keys(object_types) : b \in dependencies[a]

\* C17: a dependency that was never added as an object is a node all the same: it is
\* in the order, before the object that depends on it.
C17_ImplicitNode ==
    sorted =>
        \A a \in Keys(object_types) : \A d \in dependencies[a] \ Keys(object_types) :
            /\ d \in Range(result)
            /\ Pos(result, d) < Pos(result, a)

\* ------------------------------------------------------------------------
\* Claims about the summary of the plan (checked under SpecMig)
\* ------------------------------------------------------------------------
\* A migration file has been written by the latest generate_migration.
Emitted == Planned /\ migration_sql # <<>> /\ migrations # <<>>

\* C18: after a run, every database object without definition is listed in the
\* summary of the file the run wrote, with the marker, and has no statement in it.
C18_UnavailableListed ==
    Planned =>
        \A t \in ObjectTypes : \A i \in DOMAIN db[t] :
            db[t][i].definition = None
            => /\ Emitted
               /\ (db[t][i].name \o Unavailable)
                      \in Range(migrations[Len(migrations)].created[t])
                          \cup Range(migrations[Len(migrations)].updated[t])
               /\ \A k \in DOMAIN migration_sql :
                      ~(migration_sql[k].obj_type = t /\ migration_sql[k].name = db[t][i].name)

\* The database objects of a type that have no file, those whose file differs from
\* their definition, and the files of the type that have no database object
CreatedObjects(t) ==
    {i \in DOMAIN db[t] : FileDef(files[t], db[t][i].name) = None}

UpdatedObjects(t) ==
    {i \in DOMAIN db[t] :
        /\ FileDef(files[t], db[t][i].name) # None
        /\ db[t][i].definition # None
        /\ FileDef(files[t], db[t][i].name) # db[t][i].definition}

DroppedObjects(t) ==
    {j \in DOMAIN files[t] :
        \A i \in DOMAIN db[t] : Lower(db[t][i].name) # Lower(files[t][j].name)}

\* The entries of the body with the given verdict and type
EntriesOf(op, t) ==
    {k \in DOMAIN migration_sql : migration_sql[k].op = op /\ migration_sql[k].obj_type = t}

\* The objects of a type without definition and without file
MarkedObjects(t) ==
    {i \in CreatedObjects(t) : db[t][i].definition = None}

\* The identities listed in a bucket of a type
BucketIdentities(b, t) == {Lower(b[t][i]) : i \in DOMAIN b[t]}

\* C19: in a written file, the counts row of each type holds the numbers of objects
\* of the type that are Created, Updated and Dropped; the statements of the body are
\* as many (the objects without definition have none); no object is listed twice in
\* a bucket and none is in two buckets.
C19_SummaryConsistency ==
    Emitted =>
        \A t \in ObjectTypes :
            /\ migrations[Len(migrations)].summary[t] =
                   <<Cardinality(CreatedObjects(t)), Cardinality(UpdatedObjects(t)),
                     Cardinality(DroppedObjects(t))>>
            /\ Cardinality(EntriesOf("Created", t)) =
                   Cardinality(CreatedObjects(t)) - Cardinality(MarkedObjects(t))
            /\ Cardinality(EntriesOf("Updated", t)) = Cardinality(UpdatedObjects(t))
            /\ Cardinality(EntriesOf("Dropped", t)) = Cardinality(DroppedObjects(t))
            /\ Cardinality(Range(created[t])) = Len(created[t])
            /\ Cardinality(Range(updated[t])) = Len(updated[t])
            /\ Cardinality(Range(dropped[t])) = Len(dropped[t])
            /\ BucketIdentities(created, t) \cap BucketIdentities(updated, t) = {}
            /\ BucketIdentities(created, t) \cap BucketIdentities(dropped, t) = {}
            /\ BucketIdentities(updated, t) \cap BucketIdentities(dropped, t) = {}

\* A written file whose summary counts an Updated and a Dropped object
C19_Witness ==
    /\ Emitted
    /\ \E t \in ObjectTypes : migrations[Len(migrations)].summary[t][2] >= 1
    /\ \E t \in ObjectTypes : migrations[Len(migrations)].summary[t][3] >= 1

\* ------------------------------------------------------------------------
\* Claims about the update statement (checked under SpecUpdate)
\* ------------------------------------------------------------------------
Pending == <<"pending">>

\* CREATE and CREATE OR ALTER, in lower case
CreateTokens == {<<"c", "r", "e", "a", "t", "e">>, <<"c", "r", "e", "a", "t", "e", " ", "o", "r", " ", "a", "l", "t", "e", "r">>}

\* Only whitespace stands between the beginning of a line and index i.
AtLineStart(def, i) ==
    \E s \in 1..i : (s = 1 \/ def[s - 1] = "\n") /\ \A k \in s..(i - 1) : IsSpace(def[k])

\* After index j come whitespace and a kind keyword that ends there as a word.
KindFollows(def, j) ==
    \E e \in (j + 2)..Len(def) : \E kind \in KindWords :
        /\ \A k \in (j + 1)..(e - 1) : IsSpace(def[k])
        /\ MatchAt(def, e, kind, TRUE)
        /\ e + Len(kind) > Len(def) \/ ~IsWordChar(def[e + Len(kind)])

\* The headers of a definition: the places <<i, j>> of CREATE or CREATE OR ALTER at
\* the beginning of a line and followed by a kind keyword
Headers(def) ==
    {h \in (1..Len(def)) \X (1..Len(def)) :
        /\ h[1] <= h[2]
        /\ Lower(SubSeq(def, h[1], h[2])) \in CreateTokens
        /\ AtLineStart(def, h[1])
        /\ KindFollows(def, h[2])}

\* The definition with its first header rewritten to ALTER, itself when it has none
ExpectedUpdate(def) ==
    IF Headers(def) = {} THEN def
    ELSE LET h == CHOOSE x \in Headers(def) : \A y \in Headers(def) : x[1] <= y[1]
         IN SubSeq(def, 1, h[1] - 1) \o AlterKeyword \o From(def, h[2] + 1)

\* The part of C20 about _definition_for_update
C20_MigrationUpdate ==
    (update_sql # Pending /\ update_type \in RewrittenTypes)
    => update_sql = ExpectedUpdate(update_def)

\* The part of C20 about the rewriting of import_schema_objects
C20_ImportUpdate ==
    modified_sql # Pending => modified_sql = ExpectedUpdate(update_def)

\* C20: the update statement of a view, function, procedure or trigger is the
\* desired definition with its first header rewritten to ALTER and every other
\* character unchanged, and the definition itself when it has no header.
C20_HeaderRewrittenToAlter == C20_MigrationUpdate /\ C20_ImportUpdate

Returned == import_order # <<"pending">>

C25_EveryObjectOnce ==
    Returned =>
        \A t \in DOMAIN objects : \A i \in DOMAIN objects[t] :
            Cardinality({j \in DOMAIN import_order : import_order[j] = <<t, objects[t][i]>>}) = 1

\* C22: with auto_confirm the import never waits for input and is not cancelled at a
\* confirmation: it passes 'Proceed with import?' and skips no object that differs.
C22_AutoConfirmProceeds ==
    auto_confirm =>
        /\ pc \notin {"asking", "cancelled"}
        /\ \A i \in DOMAIN outcomes : outcomes[i] # "declined"

\* The batches of attempt a that were committed
CommittedOf(a) == {b \in 1..attempts[a].batches : <<a, b>> \in committed}

\* C30: after an object whose execution failed the loop goes on to every later object,
\* and the batches of a file are committed only if all of them succeeded: all of them
\* then, none of them otherwise, and none is left in the open transaction.
C30_ContinuesAndCommitsWholeFiles ==
    /\ pc = "completed" => \A i \in DOMAIN outcomes : outcomes[i] # "pending"
    /\ \A i \in DOMAIN outcomes : \A j \in DOMAIN outcomes :
           (outcomes[i] = "failed" /\ i < j /\ outcomes[j] = "pending")
           => (pc \in {"importing", "asking"} /\ obj_index <= j)
    /\ \A a \in DOMAIN attempts :
           attempts[a].kind = "file" =>
               CommittedOf(a) = IF attempts[a].failed = 0 THEN 1..attempts[a].batches ELSE {}
    /\ pending = {}

\* An import is over in which a file failed at its second batch and a later object
\* was imported.
C30_Witness ==
    /\ pc = "completed"
    /\ \E i \in DOMAIN outcomes : \E j \in DOMAIN outcomes :
           /\ i < j
           /\ outcomes[i] = "failed"
           /\ outcomes[j] = "imported"
           /\ \E a \in DOMAIN attempts :
                  attempts[a].obj = i /\ attempts[a].kind = "file" /\ attempts[a].failed = 2

\* The invocations of the operation that were followed by another one
Retries == 1..(Len(calls) - 1)

\* The code execute_with_retry reads from the error of invocation i
CodeOf(i) == extract_sqlstate_or_number(calls[i][1])

Transient(i) == CodeOf(i) # <<>> /\ CodeOf(i)[1] \in TRANSIENT_ERROR_CODES

TransientOrCodeless(i) == calls[i][1].pyodbc /\ (CodeOf(i) = <<>> \/ Transient(i))

AtMostRetriesPlusOne(r) == Len(calls) <= r + 1

TrueAfterSuccess == retry_pc = "returned" => (calls # <<>> /\ calls[Len(calls)] = <<>>)

\* An error that is not retried is raised at once, with no further invocation.
RaisedAtOnce(retried(_)) ==
    \A i \in DOMAIN calls :
        (calls[i] # <<>> /\ ~retried(i)) => (i = Len(calls) /\ retry_pc = "raised")

\* C23 as stated: the operation is invoked at most retries+1 times, True is returned
\* only right after a successful invocation, only an error with a transient error code
\* is retried, and any other error is raised at once.
C23_RetryOnlyTransient ==
    /\ AtMostRetriesPlusOne(retries)
    /\ TrueAfterSuccess
    /\ \A i \in Retries : calls[i] # <<>> /\ Transient(i)
    /\ RaisedAtOnce(Transient)

\* C23, amended: the operation is invoked at most max(retries, 0) + 1 times, True is
\* returned only right after a successful invocation, only a pyodbc.Error whose code is
\* transient or that carries no code is retried, and any other error is raised at once.
C23_RetryTransientOrCodeless ==
    /\ AtMostRetriesPlusOne(IF retries < 0 THEN 0 ELSE retries)
    /\ TrueAfterSuccess
    /\ \A i \in Retries : calls[i] # <<>> /\ TransientOrCodeless(i)
    /\ RaisedAtOnce(TransientOrCodeless)

\* Two retries, of a busy service and of an error without a code, then a key
\* violation that is raised.
C23_Witness ==
    /\ retry_pc = "raised"
    /\ Len(calls) = 3
    /\ CodeOf(1) = <<40501>>
    /\ CodeOf(2) = <<>>
    /\ CodeOf(3) = <<2627>>

Began == \E i \in DOMAIN target_log : target_log[i] = "BEGIN TRANSACTION"

\* C24: outside dry-run (True, 'OK', n) is returned only after COMMIT TRANSACTION was
\* executed on the target following BEGIN TRANSACTION; a failure after BEGIN leads to
\* ROLLBACK TRANSACTION and (False, message, 0); in dry-run nothing is executed on the
\* target.
C24_PerTableTransaction ==
    copy_result # <<>> =>
        /\ (~dry_run /\ copy_result[1]) =>
               /\ Began
               /\ target_log[Len(target_log)] = "COMMIT TRANSACTION"
        /\ (Began /\ ~copy_result[1]) =>
               /\ target_log[Len(target_log)] = "ROLLBACK TRANSACTION"
               /\ copy_result[3] = 0
        /\ dry_run => target_log = <<>>

\* The number in the name of an update file
NumberOf(f) == IntOf(Slice(f, 6, Len(f) - 4))

\* C27: the file a run writes has a number greater than that of every other update
\* file, no run writes over a file that existed, and apply_latest_migration then
\* selects the file written, however many migrations there are.
C27_NumberingMonotone ==
    /\ written # <<>> =>
           \A f \in FileNames(directory) : f = written \/ NumberOf(f) < NumberOf(written)
    /\ ~overwrote
    /\ (written # <<>> /\ latest # <<>>) => latest = written

\* C28: a status query for an operation_id that a start endpoint has returned never
\* answers 'Operation not found'.
C28_StatusKnownOnceStarted ==
    \A a \in answers : a.answer # "Operation not found"

\* The status of every operation that has one
StatusOf(id) == IF operation_status[id] = <<>> THEN "" ELSE operation_status[id][1].status

\* C29: no two operations share an operation_id, a status 'completed' or 'error' never
\* changes again, and a download is served only for an operation whose own run
\* completed.
C29_PerOperationStatus ==
    /\ [](\A i \in DOMAIN threads : \A j \in DOMAIN threads :
              i # j => threads[i].id # threads[j].id)
    /\ [][\A id \in OperationIds :
              StatusOf(id) \in {"completed", "error"} => StatusOf(id)' = StatusOf(id)]_vars
    /\ [](\A k \in served : threads[k].pc = "completed")

\* C26: generate_migration run after sync_schema_objects on the same directory and the
\* unchanged database classifies no object as Created, Updated or Dropped and writes
\* no migration file.
C26_SyncThenMigrateEmpty ==
    (synced /\ Planned) => (PlanEmpty /\ migrations = <<>>)

====
